---- MODULE Spec2Model ----
(***************************************************************************)
(* A model of the agentic pull-request reviewer:                           *)
(*   - ToolExecutor (src/src/agentic/agentic-reviewer.ts): validatePath,   *)
(*     readFile, searchCode, getGitHistory, findSymbolDefinition,          *)
(*     findUsages, executeTool;                                            *)
(*   - BaseAgenticAgent.review (src/src/agents/base-agentic-agent.ts): the *)
(*     multi-turn tool-use loop of one agent;                              *)
(*   - multiAgenticReview (src/src/multi-agent-agentic-reviewer.ts): the   *)
(*     runner and the aggregation of the agents' reviews.                  *)
(*                                                                         *)
(* Strings are modelled as sequences: a path is the sequence of its        *)
(* "/"-separated segments, a segment the sequence of its characters.       *)
(***************************************************************************)
EXTENDS Integers, Sequences, FiniteSets, TLC

VARIABLES
    callName,       \* executeTool(name, .)         (a direct call of the executor)
    callInput,      \* executeTool(., input)
    env,            \* what the file system and the child processes answer
    callOutcome,    \* <<>> before the direct call, <<its result>> after it
    options,        \* MultiAgenticOptions: agents, minConfidence,
                    \* parallelExecution, maxTurns
    task,           \* task[i]: the call of activeAgents[i].review and its locals
    perAgentTiming,     \* Record<string, number>, in key insertion order
    perAgentToolUsage,  \* Record<string, ToolUsageStats[]>, in key insertion order
    reviews,        \* the review list of multiAgenticReview
    runner,         \* where multiAgenticReview is: idle, running, done, rejected
    report,         \* <<>>, or <<the MultiAgenticReviewResult returned>>
    stub,           \* the answers the deterministic model stub has given so far
    prior           \* <<>>, or <<the report of the run before this one>>

toolVars == <<callName, callInput, env, callOutcome>>
runVars == <<options, task, perAgentTiming, perAgentToolUsage, reviews, runner,
             report, stub, prior>>

vars == <<callName, callInput, env, callOutcome, options, task, perAgentTiming,
          perAgentToolUsage, reviews, runner, report, stub, prior>>

(***************************************************************************)
(* Bounds of the model.                                                    *)
(***************************************************************************)
MaxPathLen == 3     \* segments of a path handed to read_file
MaxTurns == 3       \* largest maxTurns of a single agent's run
MaxRunnerTurns == 2 \* largest maxTurns when several agents run
MaxTime == 1        \* largest elapsed time Date.now() measures

(***************************************************************************)
(* Program constants.                                                      *)
(***************************************************************************)
MAX_FILE_SIZE == 51200
MAX_SEARCH_LINES == 100
MAX_GIT_COMMITS == 20
DEFAULT_GIT_LIMIT == 10

\* JavaScript values are tagged: undefined, a number, a string (a path is a
\* string held as its sequence of segments).
Undef == [t |-> "undefined"]
Num(n) == [t |-> "number", n |-> n]
Str(s) == [t |-> "string", s |-> s]
\* A tool input object; a property the model did not send is undefined.
EmptyObj == [t |-> "object", path |-> Undef, pattern |-> Undef,
             file_pattern |-> Undef, limit |-> Undef, symbol |-> Undef,
             type |-> Undef]

IsSet(v) == v.t # "undefined"

\* JavaScript truthiness of the values above.
Truthy(v) ==
    CASE v.t = "undefined" -> FALSE
      [] v.t = "number" -> v.n # 0
      [] v.t = "string" -> v.s # <<<<>>>>
      [] OTHER -> TRUE

(***************************************************************************)
(* Paths.                                                                  *)
(***************************************************************************)
DOT == <<".">>
DOTDOT == <<".", ".">>
EMPTYSEG == <<>>
NAME_A == <<"a">>
NAME_DOTS == <<"a", ".", ".", "a">>     \* a file name such as "a..a"

Segments == {EMPTYSEG, DOT, DOTDOT, NAME_A, NAME_DOTS}

\* The strings of at most n segments: "a/b" is <<a, b>>, "/a" is <<"", a>>,
\* "a/" is <<a, "">>, "" is <<"">>.
PathsUpTo(n) == UNION {[1..k -> Segments] : k \in 1..n}

IsString(v) == v.t = "string"

\* path.isAbsolute (posix): the string starts with "/".
isAbsolute(p) == Len(p) >= 2 /\ p[1] = EMPTYSEG

hasTrailingSeparator(p) == Len(p) >= 2 /\ p[Len(p)] = EMPTYSEG

\* node's normalizeString: drops empty and "." segments, resolves ".."
\* against the segment before it, keeps a leading ".." of a relative path.
RECURSIVE normalizeString(_, _, _)
normalizeString(segs, allowAboveRoot, res) ==
    IF segs = <<>> THEN res
    ELSE LET s == Head(segs)
             rest == Tail(segs)
         IN  IF s = EMPTYSEG \/ s = DOT
             THEN normalizeString(rest, allowAboveRoot, res)
             ELSE IF s = DOTDOT
             THEN IF res # <<>> /\ res[Len(res)] # DOTDOT
                  THEN normalizeString(rest, allowAboveRoot,
                                       SubSeq(res, 1, Len(res) - 1))
                  ELSE IF allowAboveRoot
                  THEN normalizeString(rest, allowAboveRoot, Append(res, DOTDOT))
                  ELSE normalizeString(rest, allowAboveRoot, res)
             ELSE normalizeString(rest, allowAboveRoot, Append(res, s))

\* path.normalize (posix).
normalize(p) ==
    IF p = <<EMPTYSEG>> THEN <<DOT>>
    ELSE LET abs == isAbsolute(p)
             trail == hasTrailingSeparator(p)
             core == normalizeString(p, ~abs, <<>>)
         IN  IF core = <<>>
             THEN IF abs THEN <<EMPTYSEG, EMPTYSEG>>
                  ELSE IF trail THEN <<DOT, EMPTYSEG>> ELSE <<DOT>>
             ELSE (IF abs THEN <<EMPTYSEG>> ELSE <<>>) \o core
                  \o (IF trail THEN <<EMPTYSEG>> ELSE <<>>)

\* String.prototype.includes(".."): two consecutive dots anywhere in the
\* string. Segments are joined by "/", so the two dots lie in one segment.
SegIncludesDotDot(s) == \E k \in 1..(Len(s) - 1) : s[k] = "." /\ s[k + 1] = "."

includesDotDot(p) == \E k \in 1..Len(p) : SegIncludesDotDot(p[k])

\* A ".." that is a whole segment of the path.
HasParentSegment(p) == \E k \in 1..Len(p) : p[k] = DOTDOT

\* What a method did: the value it returned or the error it threw, and the
\* file-system accesses and child processes it made on the way (fx).
Threw(msg, fx) == [threw |-> TRUE, err |-> msg, val |-> Undef, fx |-> fx]
Returned(v, fx) == [threw |-> FALSE, err |-> "", val |-> v, fx |-> fx]

ERR_TYPE == "TypeError"
ERR_ABSOLUTE == "Absolute paths are not allowed"
ERR_TRAVERSAL == "Directory traversal is not allowed"
ERR_NOT_FOUND == "File not found"
ERR_TOO_LARGE == "File too large"
ERR_RIPGREP == "ripgrep failed"
ERR_SPAWN == "spawn failed"
ERR_GIT == "Git history failed"
ERR_UNKNOWN_TOOL == "Unknown tool"

validatePathNoTraversalCheck(filePath) ==
    IF ~IsString(filePath) THEN Threw(ERR_TYPE, <<>>)
    ELSE IF isAbsolute(filePath.s) THEN Threw(ERR_ABSOLUTE, <<>>)
    ELSE Returned(normalize(filePath.s), <<>>)

validatePathNoAbsoluteCheck(filePath) ==
    IF ~IsString(filePath) THEN Threw(ERR_TYPE, <<>>)
    ELSE IF includesDotDot(normalize(filePath.s)) THEN Threw(ERR_TRAVERSAL, <<>>)
    ELSE Returned(normalize(filePath.s), <<>>)

\* ToolExecutor.validatePath. path.isAbsolute throws a TypeError on a value
\* that is not a string.
validatePath(filePath) ==
    IF ~IsString(filePath) THEN Threw(ERR_TYPE, <<>>)
    ELSE IF isAbsolute(filePath.s) THEN Threw(ERR_ABSOLUTE, <<>>)
    ELSE IF includesDotDot(normalize(filePath.s)) THEN Threw(ERR_TRAVERSAL, <<>>)
    ELSE Returned(normalize(filePath.s), <<>>)

\* path.join(this.repoPath, validatedPath): the location, relative to the
\* repository root, that the joined path names. A leading ".." leaves the root.
join(validatedPath) == normalizeString(validatedPath, TRUE, <<>>)

InsideRoot(loc) == ~HasParentSegment(loc)

(***************************************************************************)
(* The texts the tools return.                                             *)
(***************************************************************************)
FileContent(loc, size) == [t |-> "string", kind |-> "content", loc |-> loc, size |-> size]
NoMatchesFound == [t |-> "string", kind |-> "No matches found."]
NoMatchingFiles == [t |-> "string", kind |-> "No matching files found."]
NoCommitHistory == [t |-> "string", kind |-> "No commit history found."]
\* The raw output of a search: n non-empty lines.
SearchOutput(n) == [t |-> "string", kind |-> "output", lines |-> n]
\* `shown` of the lines, from line `first` on, and the trailer
\* "... (k more matches omitted ...)".
CappedOutput(first, shown, omitted) ==
    [t |-> "string", kind |-> "capped", first |-> first, lines |-> shown,
     omitted |-> omitted]
GitLog(n) == [t |-> "string", kind |-> "log", lines |-> n]
ErrorText(msg) == [t |-> "string", kind |-> "error", msg |-> msg]

\* The empty string, which is falsy: an empty file's content.
IsEmptyText(v) == v.t = "string" /\ v.kind = "content" /\ v.size = 0

(***************************************************************************)
(* ToolExecutor.                                                           *)
(***************************************************************************)
Open(loc) == [op |-> "open", loc |-> loc]
ReadText(loc) == [op |-> "read", loc |-> loc]
Spawn(cmd) == [op |-> "spawn", cmd |-> cmd]
SpawnGit(n, path) == [op |-> "spawn", cmd |-> "git", n |-> n, path |-> path]

\* Opens the file for writing when it is missing.
readFileCreatesMissing(filePath, e) ==
    LET v == validatePath(filePath)
        fullPath == join(v.val)
    IN  IF v.threw THEN v
        ELSE IF ~e.fileExists
        THEN Threw(ERR_NOT_FOUND, <<[op |-> "write", loc |-> fullPath]>>)
        ELSE IF e.fileSize > MAX_FILE_SIZE
        THEN Threw(ERR_TOO_LARGE, <<Open(fullPath)>>)
        ELSE Returned(FileContent(fullPath, e.fileSize),
                      <<Open(fullPath), ReadText(fullPath)>>)

\* Tests the size before the existence.
readFileSizeFirst(filePath, e) ==
    LET v == validatePath(filePath)
        fullPath == join(v.val)
    IN  IF v.threw THEN v
        ELSE IF e.fileSize > MAX_FILE_SIZE
        THEN Threw(ERR_TOO_LARGE, <<Open(fullPath)>>)
        ELSE IF ~e.fileExists THEN Threw(ERR_NOT_FOUND, <<Open(fullPath)>>)
        ELSE Returned(FileContent(fullPath, e.fileSize),
                      <<Open(fullPath), ReadText(fullPath)>>)

\* ToolExecutor.readFile.
readFile(filePath, e) ==
    LET v == validatePath(filePath)
        fullPath == join(v.val)
    IN  IF v.threw THEN v
        ELSE IF ~e.fileExists THEN Threw(ERR_NOT_FOUND, <<Open(fullPath)>>)
        ELSE IF e.fileSize > MAX_FILE_SIZE
        THEN Threw(ERR_TOO_LARGE, <<Open(fullPath)>>)
        ELSE Returned(FileContent(fullPath, e.fileSize),
                      <<Open(fullPath), ReadText(fullPath)>>)

CapLinesFromMaxOn(n) ==
    IF n >= MAX_SEARCH_LINES
    THEN CappedOutput(1, MAX_SEARCH_LINES, n - MAX_SEARCH_LINES)
    ELSE IF n = 0 THEN NoMatchesFound ELSE SearchOutput(n)

\* The tail shared by both searches: cap the non-empty lines.
\* lines.slice(0, MAX_SEARCH_LINES) are the first of them.
CapLines(n) ==
    IF n > MAX_SEARCH_LINES
    THEN CappedOutput(1, MAX_SEARCH_LINES, n - MAX_SEARCH_LINES)
    ELSE IF n = 0 THEN NoMatchesFound ELSE SearchOutput(n)

\* ToolExecutor.searchWithRipgrep. Bun.spawn throws when an argument is not a
\* string and when the executable is not installed.
searchWithRipgrep(pattern, filePattern, e) ==
    IF ~IsString(pattern) \/ (Truthy(filePattern) /\ ~IsString(filePattern))
    THEN Threw(ERR_TYPE, <<>>)
    ELSE IF e.rg = "missing" THEN Threw(ERR_SPAWN, <<>>)
    ELSE IF e.rg = "1" THEN Returned(NoMatchesFound, <<Spawn("rg")>>)
    ELSE IF e.rg # "0" THEN Threw(ERR_RIPGREP, <<Spawn("rg")>>)
    ELSE Returned(CapLines(e.lines), <<Spawn("rg")>>)

\* ToolExecutor.searchWithGrep.
searchWithGrep(pattern, filePattern, e) ==
    LET find == IF Truthy(filePattern) THEN <<Spawn("find")>> ELSE <<>>
        fx == find \o <<Spawn("grep")>>
    IN  IF Truthy(filePattern) /\ ~IsString(filePattern) THEN Threw(ERR_TYPE, <<>>)
        ELSE IF Truthy(filePattern) /\ e.findFiles = 0
        THEN Returned(NoMatchingFiles, find)
        ELSE IF ~IsString(pattern) THEN Threw(ERR_TYPE, find)
        ELSE IF e.grep = "1" THEN Returned(NoMatchesFound, fx)
        ELSE IF e.grep # "0" THEN Returned(NoMatchesFound, fx)
        ELSE Returned(CapLines(e.lines), fx)

\* Falls back to grep also when ripgrep found nothing.
searchCodeFallbackOnNoMatches(pattern, filePattern, e) ==
    LET first == searchWithRipgrep(pattern, filePattern, e)
        second == searchWithGrep(pattern, filePattern, e)
    IN  IF ~first.threw /\ first.val # NoMatchesFound THEN first
        ELSE [second EXCEPT !.fx = first.fx \o second.fx]

\* ToolExecutor.searchCode: ripgrep first, grep when ripgrep threw.
searchCode(pattern, filePattern, e) ==
    LET first == searchWithRipgrep(pattern, filePattern, e)
        second == searchWithGrep(pattern, filePattern, e)
    IN  IF ~first.threw THEN first
        ELSE [second EXCEPT !.fx = first.fx \o second.fx]

Min(a, b) == IF a <= b THEN a ELSE b

\* Starts git before the path is validated.
getGitHistoryValidatesLate(filePath, limit, e) ==
    LET actualLimit == Min(limit, MAX_GIT_COMMITS)
        v == validatePath(filePath)
        fx == <<SpawnGit(actualLimit, filePath)>>
    IN  IF e.git # "0" THEN Threw(ERR_GIT, fx)
        ELSE IF Truthy(filePath) /\ v.threw THEN [v EXCEPT !.fx = fx]
        ELSE IF e.gitLines = 0 THEN Returned(NoCommitHistory, fx)
        ELSE Returned(GitLog(Min(e.gitLines, actualLimit)), fx)

\* ToolExecutor.getGitHistory.
getGitHistory(filePath, limit, e) ==
    LET actualLimit == Min(limit, MAX_GIT_COMMITS)
        v == validatePath(filePath)
        path == IF Truthy(filePath) THEN Str(v.val) ELSE Undef
        fx == <<SpawnGit(actualLimit, path)>>
    IN  IF Truthy(filePath) /\ v.threw THEN v
        ELSE IF e.git # "0" THEN Threw(ERR_GIT, fx)
        ELSE IF e.gitLines = 0 THEN Returned(NoCommitHistory, fx)
        ELSE Returned(GitLog(Min(e.gitLines, actualLimit)), fx)

\* The regex a template string builds from a symbol: always a string, also
\* for an undefined symbol ("undefined").
PatternOf(symbol) == Str(<<NAME_A>>)

\* ToolExecutor.findSymbolDefinition.
findSymbolDefinition(symbol, symbolType, e) == searchCode(PatternOf(symbol), Undef, e)

\* ToolExecutor.findUsages.
findUsages(symbol) == PatternOf(symbol)

ToolNames == {"read_file", "search_code", "get_git_history",
              "find_symbol_definition", "find_usages"}

\* input.limit || 10, as the number handed to getGitHistory.
LimitOrDefault(limit) ==
    IF limit.t = "number" /\ limit.n # 0 THEN limit.n ELSE DEFAULT_GIT_LIMIT

\* The switch of executeTool: what the selected method did.
Dispatch(name, input, e) ==
    IF name \notin ToolNames THEN Threw(ERR_UNKNOWN_TOOL, <<>>)
    ELSE IF input.t = "undefined" THEN Threw(ERR_TYPE, <<>>)
    ELSE LET in == IF input.t = "object" THEN input ELSE EmptyObj
         IN  CASE name = "read_file" -> readFile(in.path, e)
               [] name = "search_code" -> searchCode(in.pattern, in.file_pattern, e)
               [] name = "get_git_history" ->
                      getGitHistory(in.path, LimitOrDefault(in.limit), e)
               [] name = "find_symbol_definition" ->
                      findSymbolDefinition(in.symbol, in.type, e)
               [] name = "find_usages" -> searchCode(findUsages(in.symbol), Undef, e)

\* The result object of executeTool; escaped marks an error that left
\* executeTool instead of being returned.
ToolExecutionResult(success, result, error, ms, escaped, fx) ==
    [success |-> success, result |-> result, error |-> error,
     executionTimeMs |-> ms, escaped |-> escaped, fx |-> fx]

executeToolUnknownEscapes(name, input, e, ms) ==
    LET r == Dispatch(name, input, e)
    IN  IF name \notin ToolNames
        THEN ToolExecutionResult(FALSE, Undef, Undef, Undef, TRUE, r.fx)
        ELSE IF r.threw
        THEN ToolExecutionResult(FALSE, Undef, ErrorText(r.err), Num(ms), FALSE, r.fx)
        ELSE ToolExecutionResult(TRUE, r.val, Undef, Num(ms), FALSE, r.fx)

\* ToolExecutor.executeTool: the try/catch around the switch.
executeTool(name, input, e, ms) ==
    LET r == Dispatch(name, input, e)
    IN  IF r.threw
        THEN ToolExecutionResult(FALSE, Undef, ErrorText(r.err), Num(ms), FALSE, r.fx)
        ELSE ToolExecutionResult(TRUE, r.val, Undef, Num(ms), FALSE, r.fx)

(***************************************************************************)
(* Review text and issues (BaseAgenticAgent.parseIssues, extractSummary).  *)
(* A message is the sequence of its characters. A review text is held as   *)
(* the sequence of its "[CONFIDENCE: n] ..." segments and the paragraph of *)
(* its "## Summary" section ("" when it has none).                         *)
(***************************************************************************)
Marker(conf, line, msg) == [confidence |-> conf, line |-> line, file |-> Undef, message |-> msg]
ReviewText(markers, summary) == [markers |-> markers, summary |-> summary]
EmptyText == ReviewText(<<>>, "")

\* reviewText += block.text
ConcatText(a, b) ==
    ReviewText(a.markers \o b.markers, IF a.summary # "" THEN a.summary ELSE b.summary)

IsSpace(c) == c = " "

RECURSIVE TrimLeft(_)
TrimLeft(m) == IF m # <<>> /\ IsSpace(Head(m)) THEN TrimLeft(Tail(m)) ELSE m

RECURSIVE TrimRight(_)
TrimRight(m) ==
    IF m # <<>> /\ IsSpace(m[Len(m)]) THEN TrimRight(SubSeq(m, 1, Len(m) - 1)) ELSE m

\* String.prototype.trim
Trim(m) == TrimRight(TrimLeft(m))

SeverityOfHighFrom85(confidence) ==
    IF confidence >= 90 THEN "critical"
    ELSE IF confidence >= 85 THEN "high"
    ELSE IF confidence >= 70 THEN "medium"
    ELSE "low"

\* The severity thresholds of parseIssues.
SeverityOf(confidence) ==
    IF confidence >= 90 THEN "critical"
    ELSE IF confidence >= 80 THEN "high"
    ELSE IF confidence >= 70 THEN "medium"
    ELSE "low"

\* BaseAgenticAgent.parseIssues: one issue per marker of the text.
parseIssues(reviewText) ==
    [k \in 1..Len(reviewText.markers) |->
        LET m == reviewText.markers[k]
        IN  [confidence |-> m.confidence,
             severity |-> SeverityOf(m.confidence),
             line |-> m.line,
             file |-> m.file,
             message |-> Trim(m.message)]]

\* BaseAgenticAgent.extractSummary
extractSummary(reviewText) ==
    IF reviewText.summary = "" THEN "No summary provided" ELSE reviewText.summary

(***************************************************************************)
(* Aggregation (multiAgenticReview, deduplicateIssues, normalizeMessage,   *)
(* aggregateToolUsage).                                                    *)
(***************************************************************************)
MAX_KEY_LENGTH == 100

\* String.prototype.toLowerCase on the characters of the model.
ToLower(c) == IF c = "A" THEN "a" ELSE IF c = "B" THEN "b" ELSE c

\* [a-z0-9\s] after lower-casing.
IsKeyChar(c) == c \in {"a", "b", "1", "2", " "}

RECURSIVE StripNonKeyChars(_)
StripNonKeyChars(m) ==
    IF m = <<>> THEN <<>>
    ELSE IF IsKeyChar(Head(m)) THEN <<Head(m)>> \o StripNonKeyChars(Tail(m))
    ELSE StripNonKeyChars(Tail(m))

\* .replace(/\s+/g, " ")
RECURSIVE CollapseSpaces(_)
CollapseSpaces(m) ==
    IF Len(m) < 2 THEN m
    ELSE IF IsSpace(m[1]) /\ IsSpace(m[2]) THEN CollapseSpaces(Tail(m))
    ELSE <<Head(m)>> \o CollapseSpaces(Tail(m))

normalizeMessage(message) ==
    LET lower == [k \in 1..Len(message) |-> ToLower(message[k])]
        kept == Trim(CollapseSpaces(StripNonKeyChars(lower)))
    IN  SubSeq(kept, 1, Min(Len(kept), MAX_KEY_LENGTH))

\* `${issue.line || "global"}:${normalizeMessage(issue.message)}`
DedupKey(issue) ==
    <<IF Truthy(issue.line) THEN issue.line ELSE Str(<<<<"global">>>>),
      normalizeMessage(issue.message)>>

RECURSIVE dedupFrom(_, _, _)
dedupFrom(issues, seen, unique) ==
    IF issues = <<>> THEN unique
    ELSE LET key == DedupKey(Head(issues))
         IN  IF key \in seen THEN dedupFrom(Tail(issues), seen, unique)
             ELSE dedupFrom(Tail(issues), seen \cup {key}, Append(unique, Head(issues)))

\* Keeps the last issue of each key, at the place of the first.
deduplicateIssuesKeepLast(issues) ==
    LET first == dedupFrom(issues, {}, <<>>)
    IN  [k \in 1..Len(first) |->
            LET same == {j \in 1..Len(issues) : DedupKey(issues[j]) = DedupKey(first[k])}
            IN  issues[CHOOSE j \in same : \A h \in same : h <= j]]

deduplicateIssues(issues) == dedupFrom(issues, {}, <<>>)

\* Array.prototype.filter
RECURSIVE FilterByConfidence(_, _)
FilterByConfidence(issues, minConfidence) ==
    IF issues = <<>> THEN <<>>
    ELSE IF Head(issues).confidence >= minConfidence
    THEN <<Head(issues)>> \o FilterByConfidence(Tail(issues), minConfidence)
    ELSE FilterByConfidence(Tail(issues), minConfidence)

\* Array.prototype.sort with the comparator (a, b) => b.rank - a.rank is a
\* stable sort by descending rank: x goes behind every element whose rank is
\* not lower.
RECURSIVE InsertByRank(_, _)
InsertByRank(sorted, x) ==
    IF sorted = <<>> THEN <<x>>
    ELSE IF x.rank > Head(sorted).rank THEN <<x>> \o sorted
    ELSE <<Head(sorted)>> \o InsertByRank(Tail(sorted), x)

RECURSIVE SortByRank(_)
SortByRank(xs) ==
    IF xs = <<>> THEN <<>>
    ELSE InsertByRank(SortByRank(SubSeq(xs, 1, Len(xs) - 1)), xs[Len(xs)])

\* Sorts by descending confidence and turns the order of equal confidences
\* round.
sortByConfidenceTiesReversed(issues) ==
    LET ranked == [k \in 1..Len(issues) |->
                      [rank |-> issues[Len(issues) + 1 - k].confidence,
                       item |-> issues[Len(issues) + 1 - k]]]
        sorted == SortByRank(ranked)
    IN  [k \in 1..Len(sorted) |-> sorted[k].item]

sortByConfidenceAscending(issues) ==
    LET ranked == [k \in 1..Len(issues) |->
                      [rank |-> 0 - issues[k].confidence, item |-> issues[k]]]
        sorted == SortByRank(ranked)
    IN  [k \in 1..Len(sorted) |-> sorted[k].item]

\* uniqueIssues.sort((a, b) => b.confidence - a.confidence)
sortByConfidence(issues) ==
    LET ranked == [k \in 1..Len(issues) |->
                      [rank |-> issues[k].confidence, item |-> issues[k]]]
        sorted == SortByRank(ranked)
    IN  [k \in 1..Len(sorted) |-> sorted[k].item]

\* .sort((a, b) => b.callCount - a.callCount)
sortByCallCount(usages) ==
    LET ranked == [k \in 1..Len(usages) |->
                      [rank |-> usages[k].callCount, item |-> usages[k]]]
        sorted == SortByRank(ranked)
    IN  [k \in 1..Len(sorted) |-> sorted[k].item]

RECURSIVE Flatten(_)
Flatten(seqs) == IF seqs = <<>> THEN <<>> ELSE Head(seqs) \o Flatten(Tail(seqs))

\* A Map or an object with string keys: its entries in insertion order.
\* Setting a key that is present keeps its place.
HasKey(m, k) == \E j \in 1..Len(m) : m[j].key = k
Get(m, k) == m[CHOOSE j \in 1..Len(m) : m[j].key = k].value
Put(m, k, v) ==
    IF HasKey(m, k)
    THEN [j \in 1..Len(m) |-> IF m[j].key = k THEN [key |-> k, value |-> v] ELSE m[j]]
    ELSE Append(m, [key |-> k, value |-> v])
Values(m) == [j \in 1..Len(m) |-> m[j].value]

ToolUsageStats(toolName, callCount, totalTimeMs) ==
    [toolName |-> toolName, callCount |-> callCount, totalTimeMs |-> totalTimeMs]

\* Starts the statistics of a tool anew at every call.
AddUsageStartsAnew(m, toolName, calls, ms) ==
    Put(m, toolName, ToolUsageStats(toolName, calls, ms))

\* stats.callCount++; stats.totalTimeMs += ms; map.set(toolName, stats)
AddUsage(m, toolName, calls, ms) ==
    LET old == IF HasKey(m, toolName) THEN Get(m, toolName)
               ELSE ToolUsageStats(toolName, 0, 0)
    IN  Put(m, toolName,
            ToolUsageStats(toolName, old.callCount + calls, old.totalTimeMs + ms))

RECURSIVE aggregateInto(_, _)
aggregateInto(toolUsages, aggregated) ==
    IF toolUsages = <<>> THEN aggregated
    ELSE LET u == Head(toolUsages)
         IN  aggregateInto(Tail(toolUsages),
                           AddUsage(aggregated, u.toolName, u.callCount, u.totalTimeMs))

aggregateToolUsage(toolUsages) ==
    sortByCallCount(Values(aggregateInto(toolUsages, <<>>)))

(***************************************************************************)
(* The model's answers (anthropic.messages.create).                        *)
(***************************************************************************)
TextBlock(text) == [type |-> "text", text |-> text]
ToolUseBlock(id, name, input) ==
    [type |-> "tool_use", id |-> id, name |-> name, input |-> input]
Response(stop_reason, content) ==
    [stop_reason |-> stop_reason, content |-> content,
     usage |-> [input_tokens |-> 2, output_tokens |-> 1]]
NoResponse == [stop_reason |-> "", content |-> <<>>,
               usage |-> [input_tokens |-> 0, output_tokens |-> 0]]

MSG_SQL == <<"A", "b", " ", "1">>
MSG_SQL_AGAIN == <<" ", "a", "b", "!", " ", " ", "1">>
MSG_OTHER == <<"b", "2">>

TEXT_A == ReviewText(<<Marker(95, Num(42), MSG_SQL), Marker(65, Undef, MSG_OTHER)>>, "s1")
TEXT_B == ReviewText(<<Marker(80, Num(42), MSG_SQL_AGAIN), Marker(72, Num(7), MSG_OTHER)>>, "")

PATH_A == Str(<<NAME_A>>)
PATH_UP == Str(<<DOTDOT, NAME_A>>)

USE_READ == ToolUseBlock("tu1", "read_file", [EmptyObj EXCEPT !.path = PATH_A])
USE_READ_UP == ToolUseBlock("tu1", "read_file", [EmptyObj EXCEPT !.path = PATH_UP])
USE_BOGUS == ToolUseBlock("tu2", "run_shell", EmptyObj)
USE_SEARCH == ToolUseBlock("tu1", "search_code", [EmptyObj EXCEPT !.pattern = PATH_A])

R_END_A == Response("end_turn", <<TextBlock(TEXT_A)>>)
R_END_B == Response("end_turn", <<TextBlock(TEXT_B)>>)
R_END_WITH_TOOL == Response("end_turn", <<USE_READ, TextBlock(TEXT_B)>>)
R_MAX_TOKENS == Response("max_tokens", <<TextBlock(TEXT_B), USE_READ>>)
R_READ == Response("tool_use", <<USE_READ>>)
R_SEARCH == Response("tool_use", <<TextBlock(TEXT_B), USE_SEARCH>>)
R_FAILING_TOOLS == Response("tool_use", <<USE_READ_UP, TextBlock(TEXT_B), USE_BOGUS>>)
R_NO_TOOL_BLOCK == Response("tool_use", <<TextBlock(TEXT_A)>>)
R_PAUSE == Response("pause_turn", <<TextBlock(TEXT_A)>>)

\* What the model may answer to one agent running alone, and to agents
\* running side by side.
Responses ==
    {R_END_A, R_END_WITH_TOOL, R_MAX_TOKENS, R_READ, R_FAILING_TOOLS, R_NO_TOOL_BLOCK,
     R_PAUSE}
RunnerResponses(key) ==
    IF key = "security" THEN {R_END_A, R_READ} ELSE {R_END_B, R_SEARCH}

\* The marker of a model call that failed (the promise rejected).
CALL_FAILED == Response("error", <<>>)

(***************************************************************************)
(* Agent configurations.                                                   *)
(***************************************************************************)
AgentKeys == {"security", "style"}

AgentName(key) == IF key = "security" THEN "Security (Agentic)" ELSE "Style (Agentic)"

\* MODELS[this.model].pricing, in hundredths of a dollar per million tokens.
PriceInput(key) == IF key = "security" THEN 300 ELSE 25
PriceOutput(key) == IF key = "security" THEN 1500 ELSE 125

\* BaseAgenticAgent.calculateCost, in units of 10^-8 dollar.
calculateCost(key, inputTokens, outputTokens) ==
    inputTokens * PriceInput(key) + outputTokens * PriceOutput(key)

DEFAULT_MIN_CONFIDENCE == 70

(***************************************************************************)
(* BaseAgenticAgent.review: the tool-use loop of one agent. A task record  *)
(* holds the locals of one call of review; pc says what it awaits:         *)
(*   "model"  the answer of anthropic.messages.create                      *)
(*   "tool"   the result of toolExecutor.executeTool for block `block`     *)
(*   "returned" / "threw"   review returned its AgenticAgentReview / threw *)
(*   "completed"   the runner has taken the review                         *)
(* exit, stops, modelCalls and toolCalls record the history of the loop:   *)
(* how the while loop was left, the stop reason of each answer, and how    *)
(* many calls were issued.                                                 *)
(***************************************************************************)
UserPrompt(key) == [role |-> "user", content |-> <<[type |-> "prompt", agent |-> key]>>]

NewTask(key) ==
    [agent |-> key, pc |-> "idle", turnCount |-> 0, messages |-> <<UserPrompt(key)>>,
     toolUsageMap |-> <<>>, explorationLog |-> <<>>,
     totalInputTokens |-> 0, totalOutputTokens |-> 0,
     block |-> 0, toolResults |-> <<>>, review |-> <<>>,
     exit |-> "", stops |-> <<>>, modelCalls |-> 0, toolCalls |-> 0]

\* The text of the last message when it is an assistant message.
LastReviewText(messages) ==
    LET last == messages[Len(messages)]
        texts == SelectSeq(last.content, LAMBDA b : b.type = "text")
        Cat[k \in 0..Len(texts)] ==
            IF k = 0 THEN EmptyText ELSE ConcatText(Cat[k - 1], texts[k].text)
    IN  IF last.role = "assistant" THEN Cat[Len(texts)] ELSE EmptyText

\* The AgenticAgentReview that review returns.
BuildReview(t) ==
    LET reviewText == LastReviewText(t.messages)
    IN  [agentName |-> AgentName(t.agent),
         issues |-> parseIssues(reviewText),
         summary |-> extractSummary(reviewText),
         turnCount |-> t.turnCount,
         toolUsage |-> Values(t.toolUsageMap),
         explorationLog |-> t.explorationLog,
         usage |-> [inputTokens |-> t.totalInputTokens,
                    outputTokens |-> t.totalOutputTokens,
                    cost |-> calculateCost(t.agent, t.totalInputTokens,
                                           t.totalOutputTokens)]]

\* The code behind the loop: extract the review and return it.
Finish(t, how) ==
    LET done == [t EXCEPT !.exit = how]
    IN  [done EXCEPT !.pc = "returned", !.review = <<BuildReview(done)>>]

\* agenticReviewPR, behind its loop: if (turnCount >= options.maxTurns)
\* console.warn("Reached maximum turns ... Review may be incomplete.")
ReachedMaximumTurnsWarning(t, maxTurns) == t.turnCount >= maxTurns

WhileLoopOneTurnMore(t, maxTurns) ==
    IF t.turnCount <= maxTurns
    THEN [t EXCEPT !.turnCount = @ + 1, !.pc = "model", !.modelCalls = @ + 1]
    ELSE Finish(t, "turn_limit")

\* Leaves the first call uncounted.
WhileLoopFirstCallUncounted(t, maxTurns) ==
    IF t.turnCount < maxTurns
    THEN [t EXCEPT !.turnCount = IF t.modelCalls = 0 THEN @ ELSE @ + 1,
                   !.pc = "model", !.modelCalls = @ + 1]
    ELSE Finish(t, "turn_limit")

\* while (turnCount < this.maxTurns) { turnCount++; await messages.create(...)
WhileLoop(t, maxTurns) ==
    IF t.turnCount < maxTurns
    THEN [t EXCEPT !.turnCount = @ + 1, !.pc = "model", !.modelCalls = @ + 1]
    ELSE Finish(t, "turn_limit")

\* review, up to its first await.
StartReview(key, maxTurns) == WhileLoop(NewTask(key), maxTurns)

\* Takes the last tool_use block behind block k.
NextToolUseFromEnd(content, k) ==
    LET later == {j \in (k + 1)..Len(content) : content[j].type = "tool_use"}
    IN  IF later = {} THEN 0 ELSE CHOOSE j \in later : \A h \in later : h <= j

\* The index of the first tool_use block behind block k, 0 when there is none.
NextToolUse(content, k) ==
    LET later == {j \in (k + 1)..Len(content) : content[j].type = "tool_use"}
    IN  IF later = {} THEN 0 ELSE CHOOSE j \in later : \A h \in later : j <= h

LogLine(turn, block) == [turn |-> turn, tool |-> block.name, args |-> block.input]

\* Puts the tool results in the place of the answer they belong to.
ForBlocksResultsReplaceAnswer(t, maxTurns) ==
    LET content == t.messages[Len(t.messages)].content
        k == NextToolUse(content, t.block)
    IN  IF k # 0
        THEN [t EXCEPT !.block = k, !.pc = "tool", !.toolCalls = @ + 1,
                       !.explorationLog = Append(@, LogLine(t.turnCount, content[k]))]
        ELSE WhileLoop(
                 [t EXCEPT !.block = 0, !.toolResults = <<>>,
                           !.messages =
                               IF t.toolResults # <<>>
                               THEN [@ EXCEPT ![Len(@)] =
                                        [role |-> "user", content |-> t.toolResults]]
                               ELSE @],
                 maxTurns)

\* for (const block of response.content): run on to the next tool_use block
\* and call executeTool for it, or leave the for loop, append the results and
\* go round the while loop.
ForBlocks(t, maxTurns) ==
    LET content == t.messages[Len(t.messages)].content
        k == NextToolUse(content, t.block)
    IN  IF k # 0
        THEN [t EXCEPT !.block = k, !.pc = "tool", !.toolCalls = @ + 1,
                       !.explorationLog = Append(@, LogLine(t.turnCount, content[k]))]
        ELSE WhileLoop(
                 [t EXCEPT !.block = 0, !.toolResults = <<>>,
                           !.messages =
                               IF t.toolResults # <<>>
                               THEN Append(@, [role |-> "user", content |-> t.toolResults])
                               ELSE @],
                 maxTurns)

SuccessText == [t |-> "string", kind |-> "Success"]
\* `Error: ${executionResult.error}`
ErrorContent(error) == [t |-> "string", kind |-> "Error: ", msg |-> error.msg]

ToolResultBlockSkipErrorFlag(block, res) ==
    [type |-> "tool_result", tool_use_id |-> block.id,
     content |-> IF res.success
                 THEN (IF IsEmptyText(res.result) THEN SuccessText ELSE res.result)
                 ELSE SuccessText,
     is_error |-> FALSE]

\* The tool_result entry built from an execution result.
ToolResultBlock(block, res) ==
    [type |-> "tool_result", tool_use_id |-> block.id,
     content |-> IF res.success
                 THEN (IF IsEmptyText(res.result) THEN SuccessText ELSE res.result)
                 ELSE ErrorContent(res.error),
     is_error |-> ~res.success]

OnToolResultDropFailed(t, res, ms, maxTurns) ==
    LET content == t.messages[Len(t.messages)].content
        block == content[t.block]
    IN  ForBlocks([t EXCEPT !.toolUsageMap = AddUsage(@, block.name, 1, ms),
                            !.toolResults = IF res.success
                                            THEN Append(@, ToolResultBlock(block, res))
                                            ELSE @],
                  maxTurns)

\* The code behind await toolExecutor.executeTool(...): statistics, the
\* tool_result entry, then on with the for loop.
OnToolResult(t, res, ms, maxTurns) ==
    LET content == t.messages[Len(t.messages)].content
        block == content[t.block]
    IN  ForBlocks([t EXCEPT !.toolUsageMap = AddUsage(@, block.name, 1, ms),
                            !.toolResults = Append(@, ToolResultBlock(block, res))],
                  maxTurns)

\* The assistant message is pushed and the tokens are counted.
Received(t, response) ==
    [t EXCEPT !.totalInputTokens = @ + response.usage.input_tokens,
              !.totalOutputTokens = @ + response.usage.output_tokens,
              !.messages = Append(@, [role |-> "assistant", content |-> response.content]),
              !.stops = Append(@, response.stop_reason),
              !.block = 0, !.toolResults = <<>>]

OnResponseEndTurnGoesOn(t, response, maxTurns) ==
    LET got == Received(t, response)
    IN  IF response.stop_reason = "max_tokens" THEN Finish(got, "max_tokens")
        ELSE IF response.stop_reason = "tool_use" THEN ForBlocks(got, maxTurns)
        ELSE WhileLoop(got, maxTurns)

OnResponseMaxTokensRunsTools(t, response, maxTurns) ==
    LET got == Received(t, response)
    IN  IF response.stop_reason = "end_turn" THEN Finish(got, "end_turn")
        ELSE IF response.stop_reason \in {"tool_use", "max_tokens"}
        THEN ForBlocks(got, maxTurns)
        ELSE WhileLoop(got, maxTurns)

\* The code behind await this.anthropic.messages.create(...).
OnResponse(t, response, maxTurns) ==
    LET got == [t EXCEPT !.totalInputTokens = @ + response.usage.input_tokens,
                         !.totalOutputTokens = @ + response.usage.output_tokens,
                         !.messages = Append(@, [role |-> "assistant",
                                                 content |-> response.content]),
                         !.stops = Append(@, response.stop_reason),
                         !.block = 0, !.toolResults = <<>>]
    IN  IF response.stop_reason = "end_turn" THEN Finish(got, "end_turn")
        ELSE IF response.stop_reason = "max_tokens" THEN Finish(got, "max_tokens")
        ELSE IF response.stop_reason = "tool_use" THEN ForBlocks(got, maxTurns)
        ELSE WhileLoop(got, maxTurns)

OnCallFailedPartialReview(t) == Finish([t EXCEPT !.stops = Append(@, "error")], "error")

\* messages.create rejected: nothing in review catches it.
OnCallFailed(t) == [t EXCEPT !.pc = "threw", !.exit = "error", !.stops = Append(@, "error")]

(***************************************************************************)
(* multiAgenticReview: the runner.                                         *)
(***************************************************************************)
activeAgents == options.agents
NumAgents == Len(activeAgents)
Tasks == 1..NumAgents

RECURSIVE SumSeq(_)
SumSeq(xs) == IF xs = <<>> THEN 0 ELSE Head(xs) + SumSeq(Tail(xs))

ToolCallsOf(review) ==
    SumSeq([k \in 1..Len(review.toolUsage) |-> review.toolUsage[k].callCount])

\* The state the runner and its tasks share, as one value.
RunnerState ==
    [task |-> task, perAgentTiming |-> perAgentTiming,
     perAgentToolUsage |-> perAgentToolUsage, reviews |-> reviews,
     runner |-> runner]

\* Date.now() - agentStart when review returns. The clock advances while a
\* tool runs; the other steps of a run are taken as instantaneous.
Elapsed(t) == SumSeq([k \in 1..Len(t.toolUsageMap) |-> t.toolUsageMap[k].value.totalTimeMs])

\* The code behind `await agent.review(...)`: the record of the agent's time
\* and tool usage under its name and, in the sequential loop, reviews.push.
TakeReview(rs, i) ==
    LET review == rs.task[i].review[1]
        elapsed == Elapsed(rs.task[i])
    IN  [rs EXCEPT !.task[i].pc = "completed",
                   !.perAgentTiming = Put(@, review.agentName, elapsed),
                   !.perAgentToolUsage = Put(@, review.agentName, review.toolUsage),
                   !.reviews = IF options.parallelExecution THEN @
                               ELSE Append(@, review)]

RECURSIVE RunFrom(_, _), Settle(_, _)
\* Calls review for agent i and every later agent without awaiting any.
RunFromWithoutAwait(rs, i) ==
    [rs EXCEPT !.task = [j \in Tasks |->
                            IF j >= i /\ rs.task[j].pc = "idle"
                            THEN StartReview(activeAgents[j], options.maxTurns)
                            ELSE rs.task[j]]]

\* for (const agent of activeAgents), from agent i on, up to the next await.
RunFrom(rs, i) ==
    IF i > NumAgents THEN rs
    ELSE Settle([rs EXCEPT !.task[i] = StartReview(activeAgents[i], options.maxTurns)],
                i)

\* What follows a step of task i: nothing while review is still waiting; the
\* runner's code behind the await when review returned; the rejection of
\* multiAgenticReview when review threw.
Settle(rs, i) ==
    IF rs.task[i].pc = "returned"
    THEN IF options.parallelExecution THEN TakeReview(rs, i)
         ELSE RunFrom(TakeReview(rs, i), i + 1)
    ELSE IF rs.task[i].pc = "threw"
    THEN [rs EXCEPT !.runner = IF @ = "running" THEN "rejected" ELSE @]
    ELSE rs

RECURSIVE SettleAll(_, _)
SettleAll(rs, i) ==
    IF i > NumAgents THEN rs ELSE SettleAll(Settle(rs, i), i + 1)

\* Promise.all(activeAgents.map(async (agent) => ...)): every review is
\* called, in input order, and runs up to its first await.
RunAll(rs) ==
    SettleAll([rs EXCEPT !.task = [i \in Tasks |->
                             StartReview(activeAgents[i], options.maxTurns)]],
              1)

Become(rs) ==
    /\ task' = rs.task
    /\ perAgentTiming' = rs.perAgentTiming
    /\ perAgentToolUsage' = rs.perAgentToolUsage
    /\ reviews' = rs.reviews
    /\ runner' = rs.runner

CountSeverity(issues, severity) ==
    Len(SelectSeq(issues, LAMBDA i : i.severity = severity))

\* The line of an agent's section: "No issues found." or "n issue(s)".
IssueCountLine(n) ==
    IF n = 0 THEN [kind |-> "No issues found."] ELSE [kind |-> "issue(s)", count |-> n]

\* Lists under an agent the issues that share line and normalized message
\* with one of its own.
buildAgenticSummaryByKey(rv, issues, totalToolCalls) ==
    [agents |-> [k \in 1..Len(rv) |-> rv[k].agentName],
     totalIssues |-> Len(issues),
     critical |-> CountSeverity(issues, "critical"),
     high |-> CountSeverity(issues, "high"),
     medium |-> CountSeverity(issues, "medium"),
     totalToolCalls |-> totalToolCalls,
     sections |->
        [k \in 1..Len(rv) |->
            LET agentIssues ==
                    SelectSeq(issues, LAMBDA i :
                        \E j \in 1..Len(rv[k].issues) :
                            DedupKey(rv[k].issues[j]) = DedupKey(i))
            IN  [agentName |-> rv[k].agentName,
                 line |-> IssueCountLine(Len(agentIssues)),
                 issues |-> agentIssues]]]

\* buildAgenticSummary: the head of the summary and one section per review.
\* agentIssues = issues.filter(i => review.issues.some(ri => ri.message === i.message))
buildAgenticSummary(rv, issues, totalToolCalls) ==
    [agents |-> [k \in 1..Len(rv) |-> rv[k].agentName],
     totalIssues |-> Len(issues),
     critical |-> CountSeverity(issues, "critical"),
     high |-> CountSeverity(issues, "high"),
     medium |-> CountSeverity(issues, "medium"),
     totalToolCalls |-> totalToolCalls,
     sections |->
        [k \in 1..Len(rv) |->
            LET agentIssues ==
                    SelectSeq(issues, LAMBDA i :
                        \E j \in 1..Len(rv[k].issues) :
                            rv[k].issues[j].message = i.message)
            IN  [agentName |-> rv[k].agentName,
                 line |-> IssueCountLine(Len(agentIssues)),
                 issues |-> agentIssues]]]

\* Sorts the issues of every input review as well.
AggregationArraysSortInputs(rv) ==
    LET allIssues == Flatten([k \in 1..Len(rv) |-> rv[k].issues])
        filteredIssues == FilterByConfidence(allIssues, options.minConfidence)
        uniqueIssues == deduplicateIssues(filteredIssues)
    IN  [inputs |-> [k \in 1..Len(rv) |-> sortByConfidence(rv[k].issues)],
         allIssues |-> allIssues,
         filteredIssues |-> filteredIssues,
         uniqueIssues |-> sortByConfidence(uniqueIssues)]

\* The arrays of the aggregation when it is done. flatMap, filter and
\* deduplicateIssues each build a new array and leave the one they read as
\* it is; sort works in place, on uniqueIssues. The issues arrays of the
\* input reviews are read by flatMap only.
AggregationArrays(rv) ==
    LET allIssues == Flatten([k \in 1..Len(rv) |-> rv[k].issues])
        filteredIssues == FilterByConfidence(allIssues, options.minConfidence)
        uniqueIssues == deduplicateIssues(filteredIssues)
    IN  [inputs |-> [k \in 1..Len(rv) |-> rv[k].issues],
         allIssues |-> allIssues,
         filteredIssues |-> filteredIssues,
         uniqueIssues |-> sortByConfidence(uniqueIssues)]

BuildReportDedupFirst(rv) ==
    LET allIssues == Flatten([k \in 1..Len(rv) |-> rv[k].issues])
        uniqueIssues == deduplicateIssues(allIssues)
        filteredIssues == FilterByConfidence(uniqueIssues, options.minConfidence)
    IN  [issues |-> sortByConfidence(filteredIssues),
         agentReviews |-> rv,
         totalCost |-> SumSeq([k \in 1..Len(rv) |-> rv[k].usage.cost]),
         totalToolCalls |-> SumSeq([k \in 1..Len(rv) |-> ToolCallsOf(rv[k])]),
         timing |-> [perAgent |-> perAgentTiming],
         toolUsage |-> [perAgent |-> perAgentToolUsage,
                        aggregated |->
                            aggregateToolUsage(Flatten(Values(perAgentToolUsage)))]]

\* Counts the cost of those reviews only that hold an issue of the report.
BuildReportCostOfReported(rv) ==
    LET allIssues == Flatten([k \in 1..Len(rv) |-> rv[k].issues])
        filteredIssues == FilterByConfidence(allIssues, options.minConfidence)
        uniqueIssues == deduplicateIssues(filteredIssues)
        counted == SelectSeq(rv, LAMBDA r :
                       \E k \in 1..Len(r.issues) :
                           r.issues[k].confidence >= options.minConfidence)
    IN  [issues |-> sortByConfidence(uniqueIssues),
         agentReviews |-> rv,
         totalCost |-> SumSeq([k \in 1..Len(counted) |-> counted[k].usage.cost]),
         totalToolCalls |-> SumSeq([k \in 1..Len(rv) |-> ToolCallsOf(rv[k])]),
         timing |-> [perAgent |-> perAgentTiming],
         toolUsage |-> [perAgent |-> perAgentToolUsage,
                        aggregated |->
                            aggregateToolUsage(Flatten(Values(perAgentToolUsage)))]]

\* The part of multiAgenticReview behind the agents' runs. agentReviews is
\* the reviews array itself, with the issues arrays as the aggregation left
\* them.
BuildReport(rv) ==
    LET arrays == AggregationArrays(rv)
    IN  [issues |-> arrays.uniqueIssues,
         agentReviews |-> [k \in 1..Len(rv) |->
                              [rv[k] EXCEPT !.issues = arrays.inputs[k]]],
         summary |-> buildAgenticSummary(
                         rv, arrays.uniqueIssues,
                         SumSeq([k \in 1..Len(rv) |-> ToolCallsOf(rv[k])])),
         totalCost |-> SumSeq([k \in 1..Len(rv) |-> rv[k].usage.cost]),
         totalToolCalls |-> SumSeq([k \in 1..Len(rv) |-> ToolCallsOf(rv[k])]),
         timing |-> [perAgent |-> perAgentTiming],
         toolUsage |-> [perAgent |-> perAgentToolUsage,
                        aggregated |->
                            aggregateToolUsage(Flatten(Values(perAgentToolUsage)))]]

(***************************************************************************)
(* Actions.                                                                *)
(***************************************************************************)
\* multiAgenticReview is called and runs up to its first await.
StartRun ==
    /\ runner = "idle"
    /\ LET rs == [RunnerState EXCEPT !.runner = "running"]
       IN  Become(IF options.parallelExecution THEN RunAll(rs) ELSE RunFrom(rs, 1))
    /\ UNCHANGED <<options, report, stub, prior, toolVars>>

\* A deterministic stub answers the same conversation the same way.
StubAllows(i, answer) ==
    \A given \in stub : given.messages = task[i].messages => given.answer = answer

Remember(i, answer, deterministic) ==
    stub' = IF deterministic
            THEN stub \cup {[messages |-> task[i].messages, answer |-> answer]}
            ELSE stub

\* The model answers task i.
ModelResolve(i, response, deterministic) ==
    /\ runner \in {"running", "rejected"}
    /\ task[i].pc = "model"
    /\ deterministic => StubAllows(i, response)
    /\ Become(Settle([RunnerState EXCEPT
                          !.task[i] = OnResponse(task[i], response, options.maxTurns)],
                      i))
    /\ Remember(i, response, deterministic)
    /\ UNCHANGED <<options, report, prior, toolVars>>

\* The model call of task i fails.
ModelReject(i, deterministic) ==
    /\ runner \in {"running", "rejected"}
    /\ task[i].pc = "model"
    /\ deterministic => StubAllows(i, CALL_FAILED)
    /\ Become(Settle([RunnerState EXCEPT !.task[i] = OnCallFailed(task[i])], i))
    /\ Remember(i, CALL_FAILED, deterministic)
    /\ UNCHANGED <<options, report, prior, toolVars>>

\* Counts the tool call of task i in the statistics of every task.
ToolReturnSharedUsage(i) ==
    /\ runner \in {"running", "rejected"}
    /\ task[i].pc = "tool"
    /\ \E ms \in 0..MaxTime :
          LET content == task[i].messages[Len(task[i].messages)].content
              block == content[task[i].block]
              res == executeTool(block.name, block.input, env, ms)
              rs == Settle([RunnerState EXCEPT
                               !.task[i] = OnToolResult(task[i], res, ms,
                                                        options.maxTurns)],
                           i)
          IN  Become([rs EXCEPT !.task =
                         [j \in Tasks |->
                             IF j = i THEN rs.task[j]
                             ELSE [rs.task[j] EXCEPT
                                      !.toolUsageMap = AddUsage(@, block.name, 1, ms)]]])
    /\ UNCHANGED <<options, report, stub, prior, toolVars>>

\* executeTool returns to task i.
ToolReturn(i) ==
    /\ runner \in {"running", "rejected"}
    /\ task[i].pc = "tool"
    /\ \E ms \in 0..MaxTime :
          LET content == task[i].messages[Len(task[i].messages)].content
              block == content[task[i].block]
              res == executeTool(block.name, block.input, env, ms)
          IN  Become(Settle([RunnerState EXCEPT
                                !.task[i] = OnToolResult(task[i], res, ms,
                                                         options.maxTurns)],
                            i))
    /\ UNCHANGED <<options, report, stub, prior, toolVars>>

PromiseAllInCompletionOrder ==
    [k \in 1..Len(perAgentTiming) |->
        task[CHOOSE i \in Tasks :
                 AgentName(activeAgents[i]) = perAgentTiming[k].key].review[1]]

\* What Promise.all resolves to: the reviews in the order of activeAgents.
PromiseAll == [i \in Tasks |-> task[i].review[1]]

\* Every review has returned: the reviews are aggregated and the report is
\* returned.
Aggregate ==
    /\ runner = "running"
    /\ \A i \in Tasks : task[i].pc = "completed"
    /\ LET rv == IF options.parallelExecution THEN PromiseAll ELSE reviews
           result == BuildReport(rv)
       IN  /\ reviews' = result.agentReviews
           /\ report' = <<result>>
    /\ runner' = "done"
    /\ UNCHANGED <<options, task, perAgentTiming, perAgentToolUsage, stub, prior,
                   toolVars>>

IdleTasks(agents) == [i \in 1..Len(agents) |-> NewTask(agents[i])]

\* The same review is run once more in the other execution mode, against
\* the same stub.
RunAgain ==
    /\ runner = "done"
    /\ prior = <<>>
    /\ prior' = report
    /\ options' = [options EXCEPT !.parallelExecution = ~@]
    /\ task' = IdleTasks(activeAgents)
    /\ perAgentTiming' = <<>>
    /\ perAgentToolUsage' = <<>>
    /\ reviews' = <<>>
    /\ report' = <<>>
    /\ runner' = "idle"
    /\ UNCHANGED <<stub, toolVars>>

\* A direct call of executeTool.
ExecuteTool ==
    /\ callOutcome = <<>>
    /\ callName # ""
    /\ \E ms \in 0..MaxTime :
          callOutcome' = <<executeTool(callName, callInput, env, ms)>>
    /\ UNCHANGED <<callName, callInput, env, runVars>>

(***************************************************************************)
(* Initial states.                                                         *)
(***************************************************************************)
DefaultEnv == [fileExists |-> TRUE, fileSize |-> 10, rg |-> "0", lines |-> 3,
               findFiles |-> 2, grep |-> "0", git |-> "0", gitLines |-> 3]

NoDirectCall ==
    /\ callName = ""
    /\ callInput = Undef
    /\ callOutcome = <<>>
    /\ env = DefaultEnv

RunnerIdle(opts) ==
    /\ options = opts
    /\ task = IdleTasks(opts.agents)
    /\ perAgentTiming = <<>>
    /\ perAgentToolUsage = <<>>
    /\ reviews = <<>>
    /\ runner = "idle"
    /\ report = <<>>
    /\ stub = {}
    /\ prior = <<>>

Options(agents, parallelExecution, maxTurns) ==
    [agents |-> agents, minConfidence |-> DEFAULT_MIN_CONFIDENCE,
     parallelExecution |-> parallelExecution, maxTurns |-> maxTurns]

\* One agent, any answers of the model.
Init ==
    /\ NoDirectCall
    /\ \E key \in AgentKeys, p \in BOOLEAN, m \in 0..MaxTurns :
          RunnerIdle(Options(<<key>>, p, m))

Next ==
    \/ StartRun
    \/ \E i \in Tasks, response \in Responses : ModelResolve(i, response, FALSE)
    \/ \E i \in Tasks : ModelReject(i, FALSE)
    \/ \E i \in Tasks : ToolReturn(i)
    \/ Aggregate

Spec == Init /\ [][Next]_vars

\* Several agents against a deterministic stub, run in one mode and then in
\* the other.
AgentLists == UNION {[1..n -> AgentKeys] : n \in 1..2}

RunnerInit ==
    /\ NoDirectCall
    /\ \E agents \in AgentLists, p \in BOOLEAN, m \in 1..MaxRunnerTurns :
          RunnerIdle(Options(agents, p, m))

RunnerNext ==
    \/ StartRun
    \/ \E i \in Tasks : \E response \in RunnerResponses(activeAgents[i]) :
          ModelResolve(i, response, TRUE)
    \/ \E i \in Tasks : ModelReject(i, TRUE)
    \/ \E i \in Tasks : ToolReturn(i)
    \/ Aggregate
    \/ RunAgain

RunnerSpec == RunnerInit /\ [][RunnerNext]_vars

\* Direct calls of executeTool: every tool name, inputs that are missing,
\* malformed or well-formed, and every answer of the environment.
FileSizes == {0, MAX_FILE_SIZE, MAX_FILE_SIZE + 1}
LineCounts == {0, 3, MAX_SEARCH_LINES, MAX_SEARCH_LINES + 1, 150}
ExitCodes == {"0", "1", "2"}

FileEnvs ==
    {[DefaultEnv EXCEPT !.fileExists = x, !.fileSize = z] :
        x \in BOOLEAN, z \in FileSizes}
SearchEnvs ==
    {[DefaultEnv EXCEPT !.rg = a, !.grep = b, !.lines = n, !.findFiles = f] :
        a \in ExitCodes \cup {"missing"}, b \in ExitCodes, n \in LineCounts,
        f \in {0, 2}}
GitEnvs ==
    {[DefaultEnv EXCEPT !.git = a, !.gitLines = n] : a \in {"0", "128"}, n \in {0, 3}}

MalformedInputs == {Undef, Num(7), EmptyObj}
ReadInputs ==
    MalformedInputs \cup {[EmptyObj EXCEPT !.path = Num(7)]}
    \cup {[EmptyObj EXCEPT !.path = Str(p)] : p \in PathsUpTo(MaxPathLen)}
SearchInputs ==
    MalformedInputs
    \cup {[EmptyObj EXCEPT !.pattern = PATH_A, !.file_pattern = f] :
             f \in {Undef, PATH_A, Num(7)}}
GitInputs ==
    MalformedInputs
    \cup {[EmptyObj EXCEPT !.path = f, !.limit = n] :
             f \in {Undef, Str(<<EMPTYSEG>>), PATH_A, PATH_UP,
                    Str(<<EMPTYSEG, NAME_A>>), Str(<<NAME_A, DOTDOT, NAME_A>>),
                    Str(<<NAME_A, DOTDOT, DOTDOT>>), Num(7)},
             n \in {Undef, Num(0), Num(-1), Num(1), Num(MAX_GIT_COMMITS),
                    Num(MAX_GIT_COMMITS + 1)}}
SymbolInputs ==
    MalformedInputs
    \cup {[EmptyObj EXCEPT !.symbol = PATH_A, !.type = ty] :
             ty \in {Undef, Str(<<<<"class">>>>), Str(<<<<"any">>>>)}}

DirectCalls ==
    ({"read_file"} \X ReadInputs \X FileEnvs)
    \cup ({"search_code"} \X SearchInputs \X SearchEnvs)
    \cup ({"get_git_history"} \X GitInputs \X GitEnvs)
    \cup ({"find_symbol_definition", "find_usages"} \X SymbolInputs \X SearchEnvs)
    \cup ({"run_shell"} \X MalformedInputs \X {DefaultEnv})

ToolInit ==
    /\ \E c \in DirectCalls :
          /\ callName = c[1]
          /\ callInput = c[2]
          /\ env = c[3]
    /\ callOutcome = <<>>
    /\ RunnerIdle(Options(<<"security">>, TRUE, 1))

ToolNext == ExecuteTool

ToolSpec == ToolInit /\ [][ToolNext]_vars

\* The aggregation on its own: two agents that each answer at once with a
\* final text, any markers in it, and any confidence threshold.
MaxIssues == 2

Markers ==
    {TEXT_A.markers[k] : k \in 1..Len(TEXT_A.markers)}
    \cup {TEXT_B.markers[k] : k \in 1..Len(TEXT_B.markers)}
    \cup {Marker(80, Num(7), MSG_SQL)}
MarkerLists == UNION {[1..n -> Markers] : n \in 0..MaxIssues}
MinConfidences == {DEFAULT_MIN_CONFIDENCE, 80, 90}

AggResponses ==
    {Response("end_turn", <<TextBlock(ReviewText(markers, ""))>>) :
        markers \in MarkerLists}

AggInit ==
    /\ NoDirectCall
    /\ \E p \in BOOLEAN, c \in MinConfidences :
          RunnerIdle([Options(<<"security", "style">>, p, 1) EXCEPT !.minConfidence = c])

AggNext ==
    \/ StartRun
    \/ \E i \in Tasks, response \in AggResponses : ModelResolve(i, response, FALSE)
    \/ Aggregate

AggSpec == AggInit /\ [][AggNext]_vars

\* Parsing and deduplication on their own: one agent that answers at once
\* with markers of one confidence that differ in their line (none, 0, 7) and
\* in their message, or with the marker "[CONFIDENCE: 150] Line 42: ...".
LineTags == {Undef, Num(0), Num(7)}
DedupMarkers ==
    {Marker(80, line, msg) : line \in LineTags, msg \in {MSG_SQL, MSG_SQL_AGAIN, MSG_OTHER}}
    \cup {Marker(150, Num(42), MSG_OTHER)}
DedupResponses ==
    {Response("end_turn", <<TextBlock(ReviewText(markers, ""))>>) :
        markers \in UNION {[1..n -> DedupMarkers] : n \in 0..MaxIssues}}

DedupInit ==
    /\ NoDirectCall
    /\ \E p \in BOOLEAN : RunnerIdle(Options(<<"security">>, p, 1))

DedupNext ==
    \/ StartRun
    \/ \E i \in Tasks, response \in DedupResponses : ModelResolve(i, response, FALSE)
    \/ Aggregate

DedupSpec == DedupInit /\ [][DedupNext]_vars

\* The command line around the runner. reviewPR awaits multiAgenticReview
\* without a catch, so its rejection reaches the catch of handleReviewCommand:
\* console.error(...); process.exit(1). The process ends with every loop
\* that is still waiting for the model or for a tool.
handleReviewCommand(rs) ==
    IF rs.runner = "rejected"
    THEN [rs EXCEPT !.runner = "exited",
                    !.task = [j \in Tasks |->
                                 IF rs.task[j].pc \in {"model", "tool"}
                                 THEN [rs.task[j] EXCEPT !.pc = "exited"]
                                 ELSE rs.task[j]]]
    ELSE rs

\* The model call of task i fails in a review started from the command line.
ModelRejectInCommand(i) ==
    /\ runner = "running"
    /\ task[i].pc = "model"
    /\ Become(handleReviewCommand(
                  Settle([RunnerState EXCEPT !.task[i] = OnCallFailed(task[i])], i)))
    /\ UNCHANGED <<options, report, stub, prior, toolVars>>

CommandNext ==
    \/ StartRun
    \/ \E i \in Tasks : \E response \in RunnerResponses(activeAgents[i]) :
          ModelResolve(i, response, FALSE)
    \/ \E i \in Tasks : ModelRejectInCommand(i)
    \/ \E i \in Tasks : ToolReturn(i)
    \/ Aggregate

CommandSpec == RunnerInit /\ [][CommandNext]_vars

(***************************************************************************)
(* Properties.                                                             *)
(***************************************************************************)
Range(f) == {f[x] : x \in DOMAIN f}
Returned_(t) == t.pc \in {"returned", "completed"}
AssistantCount(messages) ==
    Cardinality({j \in 1..Len(messages) : messages[j].role = "assistant"})
ToolUses(content) == SelectSeq(content, LAMBDA b : b.type = "tool_use")
AlwaysToolUse(t) == \A k \in 1..Len(t.stops) : t.stops[k] = "tool_use"

C1_Bound ==
    \A i \in Tasks :
        LET t == task[i]
        IN  /\ t.modelCalls <= options.maxTurns
            /\ t.turnCount = t.modelCalls
            /\ (Returned_(t) /\ AlwaysToolUse(t)) =>
                   /\ t.exit = "turn_limit"
                   /\ t.modelCalls = options.maxTurns
                   /\ t.review[1].turnCount = options.maxTurns

\* The most content blocks an answer of the model carries.
MaxBlocks ==
    LET lens == {Len(r.content) :
                    r \in Responses \cup UNION {RunnerResponses(key) : key \in AgentKeys}}
    IN  CHOOSE n \in lens : \A k \in lens : k <= n

\* A number that every step of a running loop makes smaller: the turns left
\* count most, then the model call of the turn, then the tool_use blocks of
\* the answer that are still to be executed.
Variant(t, maxTurns) ==
    LET left == (maxTurns - t.turnCount) * (MaxBlocks + 3)
        content == t.messages[Len(t.messages)].content
    IN  CASE t.pc = "idle" -> (maxTurns + 1) * (MaxBlocks + 3)
          [] t.pc = "model" -> left + MaxBlocks + 2
          [] t.pc = "tool" ->
                left + 1 + Len(ToolUses(SubSeq(content, t.block, Len(content))))
          [] t.pc = "returned" -> 1
          [] OTHER -> 0

Running(t) == t.pc \in {"model", "tool"}

C1_Progress ==
    \A i \in Tasks :
        (Running(task[i]) /\ task'[i] # task[i]) =>
            /\ Variant(task'[i], options.maxTurns) < Variant(task[i], options.maxTurns)
            /\ Variant(task'[i], options.maxTurns) >= 0
            /\ options' = options

\* C1: whatever the model answers, an agent loop makes at most maxTurns model
\* calls (turnCount counts them) and then terminates: every step of a running
\* loop lowers a variant that never goes below zero. A loop whose every answer
\* has the stop reason tool_use ends by the turn limit after exactly maxTurns
\* calls, with turnCount = maxTurns in its review.
C1_AtMostMaxTurnsCallsThenTerminates == [](C1_Bound) /\ [][C1_Progress]_vars

C1_Witness ==
    /\ options.maxTurns = 3
    /\ task[1].pc = "completed"
    /\ task[1].stops = <<"tool_use", "tool_use", "tool_use">>
    /\ task[1].modelCalls = 3
    /\ task[1].exit = "turn_limit"

\* The tool_result entries answer the tool_use blocks `uses` one for one, in
\* order, each under the id of its block.
AnswersInOrder(results, uses) ==
    /\ Len(results) = Len(uses)
    /\ \A k \in 1..Len(uses) :
          /\ results[k].type = "tool_result"
          /\ results[k].tool_use_id = uses[k].id

\* Behind assistant message j comes exactly one user message, which answers
\* the tool_use blocks of message j.
AnsweredByOneMessage(messages, j) ==
    /\ j < Len(messages)
    /\ messages[j + 1].role = "user"
    /\ AnswersInOrder(messages[j + 1].content, ToolUses(messages[j].content))
    /\ (j + 2 <= Len(messages) => messages[j + 2].role = "assistant")

NoAnswerMessage(messages, j) == j < Len(messages) => messages[j + 1].role = "assistant"

\* The tools of the last answer are still being executed.
InToolLoop(t, j) == j = Len(t.messages) /\ t.pc = "tool"

StopReasonOf(t, j) == t.stops[AssistantCount(SubSeq(t.messages, 1, j))]

\* While the tools of an answer run, the results so far answer the tool_use
\* blocks before the one being executed.
ResultsSoFarInOrder(t) ==
    t.pc = "tool" =>
        LET content == t.messages[Len(t.messages)].content
        IN  AnswersInOrder(t.toolResults, ToolUses(SubSeq(content, 1, t.block - 1)))

FailedToolStep(i) ==
    /\ task[i].pc = "tool"
    /\ task'[i] # task[i]
    /\ LET block == task[i].messages[Len(task[i].messages)].content[task[i].block]
       IN  ~executeTool(block.name, block.input, env, 0).success

\* The tool_result entry that the step of task i added.
AddedEntry(i) ==
    IF task'[i].pc = "tool"
    THEN task'[i].toolResults[Len(task'[i].toolResults)]
    ELSE LET added == task'[i].messages[Len(task[i].messages) + 1]
         IN  added.content[Len(added.content)]

C3_FailedToolStepGoesOn(i) ==
    LET t == task[i]
        after == task'[i]
        block == t.messages[Len(t.messages)].content[t.block]
        error == executeTool(block.name, block.input, env, 0).error
    IN  /\ after.pc # "threw"
        /\ after.pc = "tool" => Len(after.toolResults) = Len(t.toolResults) + 1
        /\ after.pc # "tool" =>
              /\ Len(after.messages) = Len(t.messages) + 1
              /\ after.messages[Len(after.messages)].role = "user"
              /\ Len(after.messages[Len(after.messages)].content) = Len(t.toolResults) + 1
              /\ IF t.turnCount < options.maxTurns
                 THEN after.pc = "model" /\ after.modelCalls = t.modelCalls + 1
                 ELSE after.pc = "completed" /\ after.exit = "turn_limit"
        /\ AddedEntry(i).tool_use_id = block.id
        /\ AddedEntry(i).is_error
        /\ AddedEntry(i).content.kind = "Error: "
        /\ AddedEntry(i).content.msg = error.msg
        /\ block.name \notin ToolNames => error.msg = ERR_UNKNOWN_TOOL

\* C3: a failed tool execution, a request for an unknown tool included, does
\* not end the loop: it adds a tool_result entry marked is_error whose content
\* carries the error text, and when the turn ceiling is not reached the next
\* model call is made with that entry in the conversation.
C3_FailedToolIsFedBack ==
    [][\A i \in Tasks : FailedToolStep(i) => C3_FailedToolStepGoesOn(i)]_vars

C3_Witness ==
    /\ task[1].pc = "model"
    /\ task[1].turnCount = 2
    /\ LET last == task[1].messages[Len(task[1].messages)]
       IN  /\ last.role = "user"
           /\ Len(last.content) = 2
           /\ last.content[2].is_error
           /\ last.content[2].content.msg = ERR_UNKNOWN_TOOL

\* C4: executeTool returns a result for every tool name and every input and
\* lets no error out; a success carries the result text, a failure the error
\* text, and both carry the execution time.
C4_ExecuteToolAlwaysReturns ==
    callOutcome # <<>> =>
        LET r == callOutcome[1]
        IN  /\ ~r.escaped
            /\ r.success => IsSet(r.result)
            /\ ~r.success => IsSet(r.error)
            /\ IsSet(r.executionTimeMs)

C4_Witness ==
    /\ callOutcome # <<>>
    /\ callName = "run_shell"
    /\ callInput = Undef
    /\ ~callOutcome[1].success
    /\ callOutcome[1].error.msg = ERR_UNKNOWN_TOOL

CallPath == IF callInput.t = "object" THEN callInput.path ELSE Undef
IsPathError(r) == ~r.success /\ r.error.msg \in {ERR_ABSOLUTE, ERR_TRAVERSAL}
TouchesFile(fx) == fx.op \in {"open", "read"}

\* C5: read_file with an absolute path, or with a path that keeps a parent
\* segment after normalization, fails with a path-validation error without any
\* file-system access; every location read_file opens lies inside the root.
C5_ReadFileStaysInsideRoot ==
    (callOutcome # <<>> /\ callName = "read_file") =>
        LET r == callOutcome[1]
        IN  /\ (/\ IsString(CallPath)
                /\ \/ isAbsolute(CallPath.s)
                   \/ HasParentSegment(normalize(CallPath.s)))
               => (IsPathError(r) /\ r.fx = <<>>)
            /\ \A k \in 1..Len(r.fx) : TouchesFile(r.fx[k]) => InsideRoot(r.fx[k].loc)

C5_Witness ==
    /\ callOutcome # <<>>
    /\ callName = "read_file"
    /\ callInput = [EmptyObj EXCEPT !.path = Str(<<NAME_A, DOTDOT, DOTDOT>>)]
    /\ callOutcome[1].error.msg = ERR_TRAVERSAL
    /\ callOutcome[1].fx = <<>>

\* C6: read_file rejects a path in validation if and only if the path is
\* absolute or keeps a parent segment ("..", a whole segment) after
\* normalization.
C6_RejectsOnlyAbsoluteOrParentSegment ==
    (callOutcome # <<>> /\ callName = "read_file" /\ IsString(CallPath)) =>
        (IsPathError(callOutcome[1])
            <=> (\/ isAbsolute(CallPath.s)
                 \/ HasParentSegment(normalize(CallPath.s))))

BothRuns == prior # <<>> /\ report # <<>>

\* A review without the measured times of its tool-usage entries.
WithoutTimes(review) ==
    [review EXCEPT !.toolUsage =
        [k \in 1..Len(review.toolUsage) |-> [review.toolUsage[k] EXCEPT !.totalTimeMs = 0]]]
AllWithoutTimes(rv) == [k \in 1..Len(rv) |-> WithoutTimes(rv[k])]

\* C7 as stated: both modes give the same review list and the same issues.
C7_SameReviewsInBothModes ==
    BothRuns =>
        /\ report[1].agentReviews = prior[1].agentReviews
        /\ report[1].issues = prior[1].issues

\* C7, amended: against the same deterministic stub the parallel and the
\* sequential run give the same review list, in the same order and with the
\* same content but for the measured totalTimeMs of the tool-usage entries,
\* and the same aggregated issue list.
C7_SameReviewsButForTimes ==
    BothRuns =>
        /\ AllWithoutTimes(report[1].agentReviews) = AllWithoutTimes(prior[1].agentReviews)
        /\ report[1].issues = prior[1].issues

C7_Witness ==
    /\ BothRuns
    /\ options.parallelExecution
    /\ activeAgents = <<"security", "style">>
    /\ perAgentTiming[1].key = AgentName("style")
    /\ report[1].agentReviews[1].toolUsage # <<>>
    /\ report[1].agentReviews[1].issues # report[1].agentReviews[2].issues
    /\ Len(report[1].issues) = 2

NamesAndCounts(usages) ==
    [k \in 1..Len(usages) |-> <<usages[k].toolName, usages[k].callCount>>]
AgentNamesOf(rv) == [k \in 1..Len(rv) |-> rv[k].agentName]
AsMapping(m) == {<<m[k].key, m[k].value>> : k \in 1..Len(m)}

\* The merged tool usage of a run in which the agents finish in input order.
UsageInInputOrder(rv) ==
    aggregateToolUsage(Flatten([k \in 1..Len(rv) |-> rv[k].toolUsage]))

\* The report of a parallel run is the one of the run in which the agents
\* finish in input order.
ReportAsInInputOrder(rep) ==
    /\ AgentNamesOf(rep.agentReviews) = [k \in Tasks |-> AgentName(activeAgents[k])]
    /\ rep.issues = sortByConfidence(deduplicateIssues(FilterByConfidence(
                        Flatten([k \in 1..Len(rep.agentReviews) |->
                                    rep.agentReviews[k].issues]),
                        DEFAULT_MIN_CONFIDENCE)))
    /\ AsMapping(rep.toolUsage.perAgent)
          = {<<rep.agentReviews[k].agentName, rep.agentReviews[k].toolUsage>> :
                k \in 1..Len(rep.agentReviews)}
    /\ {rep.timing.perAgent[k].key : k \in 1..Len(rep.timing.perAgent)}
          = Range(AgentNamesOf(rep.agentReviews))
    /\ NamesAndCounts(rep.toolUsage.aggregated)
          = NamesAndCounts(UsageInInputOrder(rep.agentReviews))

\* C8: in parallel mode the order in which the agents finish leaves every
\* part of the report as it is: the reviews are in input order, and the
\* issues, the per-agent records and the merged tool-usage list (tool names and
\* call counts, in order) are those of the run in which the agents finish in
\* input order.
C8_CompletionOrderLeavesReport ==
    (report # <<>> /\ options.parallelExecution) => ReportAsInInputOrder(report[1])

\* C9: when the model call of one agent fails, the runner still returns a
\* report with the reviews of the agents that completed.
C9_FailedAgentLeavesReport ==
    (/\ runner # "running"
     /\ \E i \in Tasks : task[i].pc = "threw"
     /\ \E i \in Tasks : task[i].pc = "completed"
     /\ \A i \in Tasks : task[i].pc \in {"threw", "completed"})
    => /\ report # <<>>
       /\ \A i \in Tasks :
             task[i].pc = "completed" => task[i].review[1] \in Range(report[1].agentReviews)

CallFailed(t) == \E k \in 1..Len(t.stops) : t.stops[k] = "error"

\* C10: when a model call of an agent fails, review throws: no review, not
\* even a partial one, is returned for the agent, and nothing the loop
\* gathered before the failure reaches the runner.
C10_FailedCallReturnsNoReview ==
    \A i \in Tasks :
        CallFailed(task[i]) =>
            /\ task[i].pc = "threw"
            /\ task[i].review = <<>>
            /\ runner = "rejected"
            /\ report = <<>>
            /\ NumAgents = 1 =>
                  /\ reviews = <<>>
                  /\ perAgentToolUsage = <<>>
                  /\ perAgentTiming = <<>>

C10_Witness ==
    /\ task[1].pc = "threw"
    /\ task[1].turnCount = 2
    /\ task[1].toolUsageMap # <<>>
    /\ task[1].totalInputTokens > 0
    /\ Len(task[1].messages) = 3

\* The issues the agents handed to the aggregation, flattened: agents in
\* input order, each agent's issues in their own order.
InputIssues(rep) == Flatten([k \in 1..Len(rep.agentReviews) |-> rep.agentReviews[k].issues])
ConfidencesOf(issues) == [k \in 1..Len(issues) |-> issues[k].confidence]
KeysOf(issues) == {DedupKey(issues[k]) : k \in 1..Len(issues)}
Qualifies(issue) == issue.confidence >= options.minConfidence

\* C11: every issue of the report has confidence >= minConfidence and is one
\* of the input issues; every input issue with confidence >= minConfidence has
\* an issue with its deduplication key in the report, whatever issues below
\* the threshold share the key; confidences 95, 72, 65, 80 with distinct keys
\* and minConfidence 70 give exactly 95, 80, 72.
C11_ReportHoldsTheQualifyingIssues ==
    report # <<>> =>
        LET rep == report[1]
            input == InputIssues(rep)
        IN  /\ \A k \in 1..Len(rep.issues) :
                  /\ Qualifies(rep.issues[k])
                  /\ rep.issues[k] \in Range(input)
            /\ \A j \in 1..Len(input) :
                  Qualifies(input[j]) => DedupKey(input[j]) \in KeysOf(rep.issues)
            /\ (/\ ConfidencesOf(input) = <<95, 72, 65, 80>>
                /\ Cardinality(KeysOf(input)) = 4
                /\ options.minConfidence = 70)
               => ConfidencesOf(rep.issues) = <<95, 80, 72>>

C11_Witness ==
    /\ report # <<>>
    /\ options.minConfidence = 70
    /\ ConfidencesOf(InputIssues(report[1])) = <<95, 72, 65, 80>>
    /\ Cardinality(KeysOf(InputIssues(report[1]))) = 4
    /\ ConfidencesOf(report[1].issues) = <<95, 80, 72>>

\* The first issue of the list that has the key.
FirstWithKey(issues, key) ==
    LET same == {j \in 1..Len(issues) : DedupKey(issues[j]) = key}
    IN  issues[CHOOSE j \in same : \A h \in same : j <= h]

OneIssuePerKey(issues) ==
    \A j, k \in 1..Len(issues) : DedupKey(issues[j]) = DedupKey(issues[k]) => j = k

\* C12 as stated: the report has one issue per deduplication key, the one
\* that comes first in the flattened list of all input issues.
C12_FirstOfFlattenedListSurvives ==
    report # <<>> =>
        LET rep == report[1]
        IN  /\ OneIssuePerKey(rep.issues)
            /\ \A k \in 1..Len(rep.issues) :
                  rep.issues[k] = FirstWithKey(InputIssues(rep), DedupKey(rep.issues[k]))

\* C12, amended: the report has exactly one issue for each deduplication key
\* of the input issues with confidence >= minConfidence and none for any other
\* key, and the issue that survives for a key is the first one in the
\* flattened list among those with confidence >= minConfidence.
C12_FirstQualifyingIssueSurvives ==
    report # <<>> =>
        LET rep == report[1]
        IN  /\ OneIssuePerKey(rep.issues)
            /\ KeysOf(rep.issues) = KeysOf(SelectSeq(InputIssues(rep), Qualifies))
            /\ \A k \in 1..Len(rep.issues) :
                  rep.issues[k] = FirstWithKey(SelectSeq(InputIssues(rep), Qualifies),
                                               DedupKey(rep.issues[k]))

C12_Witness ==
    /\ report # <<>>
    /\ options.minConfidence = 70
    /\ ConfidencesOf(report[1].agentReviews[1].issues) = <<80>>
    /\ ConfidencesOf(report[1].agentReviews[2].issues) = <<95>>
    /\ Cardinality(KeysOf(InputIssues(report[1]))) = 1
    /\ ConfidencesOf(report[1].issues) = <<80>>

\* The filter, the deduplication and the sort of multiAgenticReview on a list.
AggregateIssues(issues) ==
    sortByConfidence(deduplicateIssues(FilterByConfidence(issues, options.minConfidence)))

\* C13: the filter, the deduplication and the sort, applied to the issue list
\* of a report with the same minConfidence, give the same list back: the same
\* issues in the same order.
C13_AggregationIsIdempotent ==
    report # <<>> =>
        /\ report[1].issues = AggregateIssues(InputIssues(report[1]))
        /\ AggregateIssues(report[1].issues) = report[1].issues

C13_Witness ==
    /\ report # <<>>
    /\ options.minConfidence = 70
    /\ ConfidencesOf(InputIssues(report[1])) = <<72, 80, 65, 80>>
    /\ ConfidencesOf(report[1].issues) = <<80, 80, 72>>
    /\ AggregateIssues(report[1].issues) = report[1].issues

\* Issue x stands before issue y in the list.
Before(issues, x, y) ==
    \E j, k \in 1..Len(issues) : j < k /\ issues[j] = x /\ issues[k] = y

\* C14: the issues of the report are in order of non-increasing confidence,
\* and issues of equal confidence are in the order they have in the
\* deduplicated flattened list.
C14_SortedByConfidenceAndStable ==
    report # <<>> =>
        LET issues == report[1].issues
            unique == deduplicateIssues(SelectSeq(InputIssues(report[1]), Qualifies))
        IN  /\ \A k \in 1..(Len(issues) - 1) :
                  issues[k].confidence >= issues[k + 1].confidence
            /\ Len(issues) = Len(unique)
            /\ Range(issues) = Range(unique)
            /\ \A x, y \in Range(issues) :
                  (x.confidence = y.confidence /\ Before(unique, x, y))
                      => Before(issues, x, y)

C14_Witness ==
    /\ report # <<>>
    /\ ConfidencesOf(InputIssues(report[1])) = <<80, 72, 80, 65>>
    /\ ConfidencesOf(report[1].issues) = <<80, 80, 72>>
    /\ report[1].issues[1] = InputIssues(report[1])[1]
    /\ report[1].issues[2] = InputIssues(report[1])[3]
    /\ report[1].issues[1] # report[1].issues[2]

SeverityAgrees(issue) ==
    /\ issue.severity = "critical" <=> issue.confidence >= 90
    /\ issue.severity = "high" <=> (issue.confidence >= 80 /\ issue.confidence <= 89)
    /\ issue.severity = "medium" <=> (issue.confidence >= 70 /\ issue.confidence <= 79)
    /\ issue.severity = "low" <=> issue.confidence < 70
    /\ issue.severity \in {"critical", "high", "medium", "low"}

AllAgree(issues) == \A k \in 1..Len(issues) : SeverityAgrees(issues[k])

\* C15: the severity of every issue follows from its confidence alone,
\* critical from 90, high from 80 to 89, medium from 70 to 79, low below 70,
\* in every review an agent returned, in the reviews the runner holds and in
\* the issue list of the report.
C15_SeverityFollowsConfidence ==
    /\ \A i \in Tasks : task[i].review # <<>> => AllAgree(task[i].review[1].issues)
    /\ \A k \in 1..Len(reviews) : AllAgree(reviews[k].issues)
    /\ report # <<>> =>
          /\ AllAgree(report[1].issues)
          /\ \A k \in 1..Len(report[1].agentReviews) :
                AllAgree(report[1].agentReviews[k].issues)

C15_Witness ==
    /\ report # <<>>
    /\ options.minConfidence = 70
    /\ Len(InputIssues(report[1])) = 4
    /\ Len(report[1].issues) = 3
    /\ [k \in 1..3 |-> report[1].issues[k].severity] = <<"critical", "high", "medium">>
    /\ \E k \in 1..4 : InputIssues(report[1])[k].severity = "low"

HasStop(t, reason) == \E k \in 1..Len(t.stops) : t.stops[k] = reason
Ended(t) == t.pc \in {"returned", "completed", "threw"}

\* The answer with the stop reason was the last thing the loop did: no model
\* call, no tool execution and no tool-result message came after it.
StoppedAt(t, reason) ==
    /\ t.stops[Len(t.stops)] = reason
    /\ \A k \in 1..(Len(t.stops) - 1) : t.stops[k] # reason
    /\ Returned_(t)
    /\ t.exit = reason
    /\ t.modelCalls = Len(t.stops)
    /\ t.messages[Len(t.messages)].role = "assistant"
    /\ \A k \in 1..Len(t.explorationLog) : t.explorationLog[k].turn < t.turnCount
    /\ t.toolCalls = Len(t.explorationLog)
    /\ t.toolCalls = SumSeq([k \in 1..Len(t.toolUsageMap) |->
                                t.toolUsageMap[k].value.callCount])

\* C16 as stated: a loop is left as completed exactly when an answer has the
\* stop reason end_turn, nothing happens after that answer, and every run
\* that ends without such an answer ends by the token limit or the turn limit.
C16_EveryRunEndsInOneOfThreeStates ==
    \A i \in Tasks :
        LET t == task[i]
        IN  /\ HasStop(t, "end_turn") => StoppedAt(t, "end_turn")
            /\ (Ended(t) /\ t.exit = "end_turn") => HasStop(t, "end_turn")
            /\ (Ended(t) /\ ~HasStop(t, "end_turn")) => t.exit \in {"max_tokens", "turn_limit"}

\* C16, amended: a loop is left as completed exactly when an answer has the
\* stop reason end_turn; after such an answer no model call is made, no tool
\* is executed and no message is appended; every run that returns a review
\* without such an answer ends by the token limit or by the turn limit, and a
\* run whose model call fails returns nothing and ends in none of the three.
C16_CompletedExactlyOnEndTurn ==
    \A i \in Tasks :
        LET t == task[i]
        IN  /\ HasStop(t, "end_turn") => StoppedAt(t, "end_turn")
            /\ (Ended(t) /\ t.exit = "end_turn") => HasStop(t, "end_turn")
            /\ (Returned_(t) /\ ~HasStop(t, "end_turn"))
                  => t.exit \in {"max_tokens", "turn_limit"}
            /\ t.pc = "threw" => (t.exit = "error" /\ ~HasStop(t, "end_turn"))

C16_Witness ==
    /\ task[1].pc = "completed"
    /\ task[1].stops = <<"tool_use", "end_turn">>
    /\ task[1].messages[Len(task[1].messages)].content = R_END_WITH_TOOL.content
    /\ task[1].exit = "end_turn"
    /\ task[1].toolCalls = 1
    /\ options.maxTurns = 3

\* C17: a loop that returned is reported as truncated by the turn limit (the
\* "Reached maximum turns" warning) if and only if it was left because the
\* turn count reached maxTurns, not by an end_turn or a max_tokens answer.
C17_TurnLimitReportedOnlyWhenHit ==
    \A i \in Tasks :
        Returned_(task[i]) =>
            (ReachedMaximumTurnsWarning(task[i], options.maxTurns)
                <=> task[i].exit = "turn_limit")

\* The text blocks of the last message, joined.
TextOfLastAnswer(t) ==
    LET content == t.messages[Len(t.messages)].content
        texts == SelectSeq(content, LAMBDA b : b.type = "text")
    IN  [k \in 1..Len(texts) |-> texts[k].text]

\* C18: an answer with the stop reason max_tokens ends the loop at once, by
\* the token limit: no tool_use block of the answer is executed, no
\* tool-result message is appended, no further model call is made, and the
\* review that is returned is parsed from the text of that answer.
C18_MaxTokensStopsAtOnce ==
    \A i \in Tasks :
        LET t == task[i]
        IN  HasStop(t, "max_tokens") =>
                /\ StoppedAt(t, "max_tokens")
                /\ t.review # <<>>
                /\ t.review[1].turnCount = Len(t.stops)
                /\ Len(TextOfLastAnswer(t)) = 1 =>
                      /\ t.review[1].issues = parseIssues(TextOfLastAnswer(t)[1])
                      /\ t.review[1].summary = extractSummary(TextOfLastAnswer(t)[1])

C18_Witness ==
    /\ task[1].pc = "completed"
    /\ task[1].stops = <<"tool_use", "max_tokens">>
    /\ task[1].messages[Len(task[1].messages)].content = R_MAX_TOKENS.content
    /\ task[1].toolCalls = 2
    /\ ConfidencesOf(task[1].review[1].issues) = <<80, 72>>
    /\ options.maxTurns = 3

CallField(name) == IF callInput.t = "object" THEN callInput[name] ELSE Undef

\* The search of a search_code call ran to its end with matches to report:
\* ripgrep exited with 0, or ripgrep failed and grep, on a file list that is
\* not empty, exited with 0.
SearchYieldsLines ==
    /\ callName = "search_code"
    /\ IsString(CallField("pattern"))
    /\ ~Truthy(CallField("file_pattern")) \/ IsString(CallField("file_pattern"))
    /\ \/ env.rg = "0"
       \/ /\ env.rg \in {"2", "missing"}
          /\ env.grep = "0"
          /\ Truthy(CallField("file_pattern")) => env.findFiles > 0

\* C19: a search_code that yields N non-empty lines returns, for N > 100, the
\* first 100 of them and a trailer that states N - 100 omitted, and for
\* N <= 100 all of them and no trailer.
C19_SearchOutputIsCapped ==
    (callOutcome # <<>> /\ SearchYieldsLines) =>
        LET r == callOutcome[1]
            N == env.lines
        IN  /\ r.success
            /\ N > 100 =>
                  /\ r.result.kind = "capped"
                  /\ r.result.first = 1
                  /\ r.result.lines = 100
                  /\ r.result.omitted = N - 100
            /\ N <= 100 => r.result.kind # "capped"
            /\ (N <= 100 /\ N >= 1) => (r.result.kind = "output" /\ r.result.lines = N)

C19_Witness ==
    /\ callOutcome # <<>>
    /\ SearchYieldsLines
    /\ env.rg = "0"
    /\ env.lines = 150
    /\ callOutcome[1].result.kind = "capped"
    /\ callOutcome[1].result.lines = 100
    /\ callOutcome[1].result.omitted = 50

\* The cost each agent's review states, in the order of the agents.
CostsOfTasks == [i \in Tasks |-> task[i].review[1].usage.cost]

\* C20: the report's totalCost is the sum of usage.cost over every agent's
\* review, whatever minConfidence is and however many issues it removes.
C20_TotalCostSumsEveryReview ==
    report # <<>> =>
        /\ report[1].totalCost = SumSeq(CostsOfTasks)
        /\ \A i \in Tasks :
              task[i].review[1].usage.cost =
                  calculateCost(task[i].agent, task[i].totalInputTokens,
                                task[i].totalOutputTokens)

\* Both agents have a cost, every issue of the second is below the threshold,
\* and the report's cost still counts both.
C20_Witness ==
    /\ report # <<>>
    /\ NumAgents = 2
    /\ options.minConfidence = 90
    /\ \A i \in Tasks : task[i].review[1].usage.cost > 0
    /\ ConfidencesOf(task[1].review[1].issues) = <<95>>
    /\ ConfidencesOf(task[2].review[1].issues) = <<80, 72>>
    /\ ConfidencesOf(report[1].issues) = <<95>>
    /\ report[1].totalCost =
           task[1].review[1].usage.cost + task[2].review[1].usage.cost

\* The place of the last assistant message of a conversation, 0 without one.
LastAssistant(messages) ==
    LET at == {j \in 1..Len(messages) : messages[j].role = "assistant"}
    IN  IF at = {} THEN 0 ELSE CHOOSE j \in at : \A h \in at : h <= j

\* The text blocks of a message, concatenated.
TextOfMessage(message) ==
    LET texts == SelectSeq(message.content, LAMBDA b : b.type = "text")
        Cat[k \in 0..Len(texts)] ==
            IF k = 0 THEN EmptyText ELSE ConcatText(Cat[k - 1], texts[k].text)
    IN  Cat[Len(texts)]

\* C21: however the loop was left (end_turn, max_tokens or the turn limit),
\* the issues and the summary of the returned review are those of the text of
\* the last assistant message of the conversation.
C21_ReviewIsOfLastAssistantMessage ==
    \A i \in Tasks :
        LET t == task[i]
            j == LastAssistant(t.messages)
        IN  (Returned_(t) /\ j # 0) =>
                /\ t.review[1].issues = parseIssues(TextOfMessage(t.messages[j]))
                /\ t.review[1].summary = extractSummary(TextOfMessage(t.messages[j]))

Roles(messages) == [j \in 1..Len(messages) |-> messages[j].role]
IsPrefix(a, b) == Len(a) <= Len(b) /\ SubSeq(b, 1, Len(a)) = a

\* The conversation of a run: the prompt first, and a user message only
\* right behind an assistant message, so one at most per turn.
ConversationShape(t) ==
    /\ t.messages # <<>>
    /\ t.messages[1] = UserPrompt(t.agent)
    /\ (t.pc = "idle" \/ t.stops = <<>>) => Len(t.messages) = 1
    /\ \A j \in 2..Len(t.messages) :
          t.messages[j].role = "user" =>
              /\ t.messages[j - 1].role = "assistant"
              /\ \A k \in 1..Len(t.messages[j].content) :
                    t.messages[j].content[k].type = "tool_result"
    /\ AssistantCount(t.messages) = Cardinality({k \in 1..Len(t.stops) : t.stops[k] # "error"})

\* What a step of a run does to its conversation.
ConversationStep(t, u) ==
    /\ IsPrefix(t.messages, u.messages)
    /\ (t.pc = "model" /\ u.pc # "threw") =>
          /\ Len(u.messages) = Len(t.messages) + 1
          /\ u.messages[Len(u.messages)].role = "assistant"
    /\ (t.pc = "model" /\ u.pc = "threw") => u.messages = t.messages
    /\ t.pc = "tool" =>
          /\ Len(u.messages) <= Len(t.messages) + 1
          /\ Len(u.messages) > Len(t.messages) =>
                u.messages[Len(u.messages)].role = "user"
    /\ t.pc \notin {"model", "tool"} => u.messages = t.messages

C22_AppendOnly ==
    \A i \in Tasks : task'[i] # task[i] => ConversationStep(task[i], task'[i])

C22_Shape == \A i \in Tasks : ConversationShape(task[i])

\* C22: a conversation starts as one user message and only grows: a step
\* keeps every earlier message in its place, an answered model call appends
\* one assistant message, and the handling of an answer's tools appends at
\* most one user message.
C22_ConversationIsAppendOnly == [](C22_Shape) /\ [][C22_AppendOnly]_vars

C22_Witness ==
    /\ task[1].pc = "completed"
    /\ Roles(task[1].messages) = <<"user", "assistant", "user", "assistant", "assistant">>
    /\ task[1].stops = <<"tool_use", "tool_use", "end_turn">>
    /\ Len(task[1].messages[3].content) = 2

Alternates(messages) ==
    \A j \in 1..Len(messages) :
        messages[j].role = IF j % 2 = 1 THEN "user" ELSE "assistant"

\* C23: every model call is made with a conversation that ends in a user
\* message and whose roles alternate user, assistant, user, ... from the
\* first message on, whatever stop reasons the model has returned.
C23_ModelCallsSeeAlternatingRoles ==
    \A i \in Tasks :
        task[i].pc = "model" =>
            /\ task[i].messages[Len(task[i].messages)].role = "user"
            /\ Alternates(task[i].messages)

\* A maxTurns of zero or less: review makes no call and returns with
\* turnCount 0.
NoTurnsNoCalls ==
    \A key \in AgentKeys, m \in {-1, 0} :
        LET t == StartReview(key, m)
        IN  /\ t.pc = "returned"
            /\ t.modelCalls = 0
            /\ t.review[1].turnCount = 0

\* C24: turnCount is incremented before each model call, so it always equals
\* the number of model calls made; the turnCount of a returned review is
\* that number, between 1 and maxTurns when maxTurns >= 1, and 0, with no
\* call made, when maxTurns <= 0.
C24_TurnCountCountsModelCalls ==
    /\ NoTurnsNoCalls
    /\ \A i \in Tasks :
          LET t == task[i]
          IN  /\ t.turnCount = t.modelCalls
              /\ t.pc = "model" => t.modelCalls = Len(t.stops) + 1
              /\ Returned_(t) =>
                    /\ t.review[1].turnCount = t.modelCalls
                    /\ t.modelCalls = Len(t.stops)
                    /\ options.maxTurns >= 1 =>
                          (1 <= t.review[1].turnCount
                              /\ t.review[1].turnCount <= options.maxTurns)
                    /\ options.maxTurns <= 0 =>
                          (t.modelCalls = 0 /\ t.review[1].turnCount = 0)

C24_Witness ==
    /\ task[1].pc = "completed"
    /\ options.maxTurns = 3
    /\ task[1].stops = <<"tool_use", "pause_turn", "tool_use">>
    /\ task[1].exit = "turn_limit"
    /\ task[1].review[1].turnCount = 3

\* The tool_use blocks the loop has reached in the a-th answer of a run, as
\* log lines of turn a: every block of an answer with the stop reason
\* tool_use, and those up to the block in execution of the answer in hand.
RequestedInTurn(t, a) ==
    LET at == {j \in 1..Len(t.messages) :
                  /\ t.messages[j].role = "assistant"
                  /\ AssistantCount(SubSeq(t.messages, 1, j)) = a}
        j == CHOOSE x \in at : TRUE
        content == t.messages[j].content
        reached == IF InToolLoop(t, j) THEN SubSeq(content, 1, t.block) ELSE content
        uses == ToolUses(reached)
    IN  IF t.stops[a] = "tool_use"
        THEN [k \in 1..Len(uses) |-> LogLine(a, uses[k])]
        ELSE <<>>

\* The invocations of a run so far, in the order of their start.
Invocations(t) ==
    Flatten([a \in 1..AssistantCount(t.messages) |-> RequestedInTurn(t, a)])

\* Those of them that have returned.
Finished(t) ==
    LET all == Invocations(t)
    IN  IF t.pc = "tool" THEN SubSeq(all, 1, Len(all) - 1) ELSE all

\* The accumulator accounts for the invocations `calls`: one entry per tool
\* name among them, and call counts that add up to their number.
AccountsFor(usageMap, calls) ==
    /\ \A j, k \in 1..Len(usageMap) : usageMap[j].key = usageMap[k].key => j = k
    /\ {usageMap[j].key : j \in 1..Len(usageMap)} = {calls[k].tool : k \in 1..Len(calls)}
    /\ \A j \in 1..Len(usageMap) :
          /\ usageMap[j].value.toolName = usageMap[j].key
          /\ usageMap[j].value.callCount =
                 Cardinality({k \in 1..Len(calls) : calls[k].tool = usageMap[j].key})
    /\ SumSeq([j \in 1..Len(usageMap) |-> usageMap[j].value.callCount]) = Len(calls)

CallCountsGrow(t, u) ==
    \A j \in 1..Len(t.toolUsageMap) :
        /\ j <= Len(u.toolUsageMap)
        /\ u.toolUsageMap[j].key = t.toolUsageMap[j].key
        /\ u.toolUsageMap[j].value.callCount >= t.toolUsageMap[j].value.callCount

\* C25 as stated: at every point of a run the accumulator and the log both
\* account for the invocations made so far, the one in execution included.
C25_UsageAndLogCountEveryInvocation ==
    \A i \in Tasks :
        /\ task[i].explorationLog = Invocations(task[i])
        /\ AccountsFor(task[i].toolUsageMap, Invocations(task[i]))

C25_Accounts ==
    \A i \in Tasks :
        /\ task[i].explorationLog = Invocations(task[i])
        /\ task[i].toolCalls = Len(Invocations(task[i]))
        /\ AccountsFor(task[i].toolUsageMap, Finished(task[i]))

C25_Grows == \A i \in Tasks : CallCountsGrow(task[i], task'[i])

\* C25, amended: at every point of a run the exploration log has one line
\* per invocation started so far, in the order of their start and labelled
\* with the turn of the answer that requested it; the accumulator has one
\* entry per tool name among the invocations that have returned, with call
\* counts that only grow and add up to the number of those invocations, so
\* that it is one invocation behind the log while a tool is in execution.
C25_LogCountsStartedUsageCountsFinished == [](C25_Accounts) /\ [][C25_Grows]_vars

C25_Witness ==
    /\ task[1].pc = "tool"
    /\ task[1].turnCount = 2
    /\ Len(task[1].explorationLog) = 3
    /\ task[1].explorationLog[2].turn = 1
    /\ task[1].explorationLog[3].turn = 2
    /\ task[1].explorationLog[3].tool = "read_file"
    /\ Len(task[1].toolUsageMap) = 2
    /\ task[1].toolUsageMap[1].key = "read_file"
    /\ task[1].toolUsageMap[1].value.callCount = 1

IdsOf(blocks) == [k \in 1..Len(blocks) |-> IF blocks[k].type = "tool_use"
                                            THEN blocks[k].id
                                            ELSE blocks[k].tool_use_id]

\* The tool_use blocks of an answer before place k, and from place k on.
UsesBefore(content, k) == ToolUses(SubSeq(content, 1, k - 1))
UsesFrom(content, k) == ToolUses(SubSeq(content, k, Len(content)))

\* While a tool is in execution it is the only one of its run: every
\* tool_use block before it has its result, none behind it has, and no model
\* call is pending.
OneToolAtATime(t) ==
    t.pc = "tool" =>
        LET content == t.messages[Len(t.messages)].content
        IN  /\ t.messages[Len(t.messages)].role = "assistant"
            /\ t.block \in 1..Len(content)
            /\ content[t.block].type = "tool_use"
            /\ IdsOf(t.toolResults) = IdsOf(UsesBefore(content, t.block))
            /\ t.modelCalls = Len(t.stops)

\* A step of a run whose tool returns: the next tool_use block in the order
\* of the answer is started, or, behind the last one, the results of all are
\* in the conversation before the loop goes on.
ToolsInOrder(t, u) ==
    LET content == t.messages[Len(t.messages)].content
        later == UsesFrom(content, t.block + 1)
    IN  (t.pc = "tool" /\ u # t) =>
            /\ later # <<>> =>
                  /\ u.pc = "tool"
                  /\ u.messages = t.messages
                  /\ u.modelCalls = t.modelCalls
                  /\ content[u.block] = later[1]
                  /\ IdsOf(u.toolResults) = Append(IdsOf(t.toolResults), content[t.block].id)
            /\ later = <<>> =>
                  /\ u.pc # "tool"
                  /\ Len(u.messages) = Len(t.messages) + 1
                  /\ IdsOf(u.messages[Len(u.messages)].content) = IdsOf(ToolUses(content))
                  /\ u.modelCalls \in {t.modelCalls, t.modelCalls + 1}

\* An answer with the stop reason tool_use starts with its first tool_use
\* block.
FirstToolFirst(t, u) ==
    (t.pc = "model" /\ u.pc = "tool") =>
        LET content == u.messages[Len(u.messages)].content
        IN  /\ content[u.block] = ToolUses(content)[1]
            /\ u.toolResults = <<>>
            /\ u.modelCalls = t.modelCalls

C26_State == \A i \in Tasks : OneToolAtATime(task[i])
C26_Step ==
    \A i \in Tasks : ToolsInOrder(task[i], task'[i]) /\ FirstToolFirst(task[i], task'[i])

\* C26: the tool calls of one turn are executed one at a time, in the order
\* of their blocks in the answer, each returning before the next is started,
\* and the next model call is issued only when each has its result.
C26_ToolsRunOneByOneInOrder == [](C26_State) /\ [][C26_Step]_vars

C26_Witness ==
    /\ task[1].pc = "tool"
    /\ task[1].messages[Len(task[1].messages)].content = R_FAILING_TOOLS.content
    /\ task[1].block = 3
    /\ IdsOf(task[1].toolResults) = <<"tu1">>
    /\ task[1].modelCalls = 1
    /\ options.maxTurns = 2

Started(t) == t.pc # "idle"

\* Sequential mode: an agent's loop is started only when the review of the
\* agent before it has returned and has been taken.
OneAfterAnother ==
    ~options.parallelExecution =>
        \A k \in Tasks :
            (k + 1 \in Tasks /\ Started(task[k + 1])) =>
                /\ task[k].pc = "completed"
                /\ task[k].review # <<>>
                /\ Len(reviews) >= k

\* Parallel mode: once multiAgenticReview has reached its await, the loop of
\* every agent has been started.
AllStartedBeforeWaiting ==
    (options.parallelExecution /\ runner # "idle") =>
        \A i \in Tasks : Started(task[i]) /\ task[i].modelCalls >= 1

\* No report while a started loop is still running or has failed.
AggregatesWhenAllEnded ==
    (report # <<>> \/ runner = "done") =>
        /\ report # <<>>
        /\ \A i \in Tasks : task[i].pc = "completed" /\ task[i].review # <<>>
        /\ Len(report[1].agentReviews) = NumAgents

\* C27: in sequential mode agent k+1 makes its first model call only after
\* agent k's review has returned; in parallel mode every loop is started
\* before the runner waits; in both modes the reviews are aggregated only
\* when every started loop has ended.
C27_RunnerOrder == OneAfterAnother /\ AllStartedBeforeWaiting /\ AggregatesWhenAllEnded

C27_Witness ==
    /\ ~options.parallelExecution
    /\ NumAgents = 2
    /\ prior = <<>>
    /\ runner = "running"
    /\ task[1].pc = "completed"
    /\ task[1].stops = <<"tool_use", "end_turn">>
    /\ task[2].pc = "model"
    /\ task[2].modelCalls = 1
    /\ Len(reviews) = 1

\* The locals of review that the loop changes.
LoopState(t) ==
    [messages |-> t.messages, turnCount |-> t.turnCount,
     toolUsageMap |-> t.toolUsageMap, explorationLog |-> t.explorationLog,
     totalInputTokens |-> t.totalInputTokens,
     totalOutputTokens |-> t.totalOutputTokens]

\* Task j is called in this step: its review runs up to its first await.
IsStartedNow(j) ==
    /\ task[j].pc = "idle"
    /\ task'[j] = StartReview(activeAgents[j], options.maxTurns)

C28_Step ==
    \A i, j \in Tasks :
        (i # j /\ Running(task[i]) /\ task'[i] # task[i]) =>
            \/ LoopState(task'[j]) = LoopState(task[j])
            \/ ~options.parallelExecution /\ IsStartedNow(j)

\* C28: a step of one agent's loop (an answer of the model, a failed call, a
\* tool that returns) leaves the conversation, the turn counter, the tool
\* usage, the exploration log and the token totals of every other agent as
\* they were.
C28_AgentsShareNoLoopState == [][C28_Step]_vars

C28_Witness ==
    /\ options.parallelExecution
    /\ NumAgents = 2
    /\ activeAgents[1] = activeAgents[2]
    /\ task[1].pc = "tool"
    /\ task[1].turnCount = 2
    /\ Len(task[1].toolUsageMap) = 1
    /\ task[2].pc = "tool"
    /\ task[2].turnCount = 1
    /\ task[2].toolUsageMap = <<>>
    /\ Len(task[2].messages) = 2

\* The loop of task i ends in this step.
Stops(i) == Running(task[i]) /\ ~Running(task'[i])

C29_Step ==
    \A i \in Tasks :
        Stops(i) => task'[i].pc \in {"returned", "completed", "threw"}

\* C29: a loop that has started stops only by returning its review or by
\* the failure of its own model call; the failure of another agent's call
\* does not end it while it waits for the model or for a tool.
C29_LoopsStopOnlyByThemselves == [][C29_Step]_vars

\* The reviews as the agents returned them, in the order of the agents.
ReviewsAsReturned == [i \in Tasks |-> task[i].review[1]]

\* C30: the aggregation leaves its input as it was: the report's
\* agentReviews is the list of the reviews as the agents returned them, in
\* the same order, each with the same issues in the same order, whatever
\* the filter, the deduplication and the sort did to the report's own list.
C30_AggregationLeavesReviews ==
    report # <<>> =>
        /\ report[1].agentReviews = ReviewsAsReturned
        /\ reviews = ReviewsAsReturned
        /\ \A i \in Tasks :
              /\ report[1].agentReviews[i].issues = parseIssues(TextOfMessage(task[i].messages[2]))
              /\ report[1].agentReviews[i].agentName = AgentName(activeAgents[i])

C30_Witness ==
    /\ report # <<>>
    /\ options.minConfidence = 80
    /\ ConfidencesOf(report[1].agentReviews[1].issues) = <<65, 95>>
    /\ ConfidencesOf(report[1].agentReviews[2].issues) = <<72, 80>>
    /\ ConfidencesOf(report[1].issues) = <<95, 80>>

\* The line of an issue, "no line" apart from every number, and its
\* normalized message.
LineAndMessage(issue) == <<issue.line, normalizeMessage(issue.message)>>

\* C31: two issues that pass the filter are collapsed into one if and only
\* if they have the same line (or both none) and the same normalized message:
\* the report has one issue for each such pair among the qualifying input
\* issues, and issues that differ in their line, line 0 and no line included,
\* stay apart.
C31_MergedIffSameLineAndMessage ==
    report # <<>> =>
        LET rep == report[1]
            qualifying == SelectSeq(InputIssues(rep), Qualifies)
        IN  /\ \A j, k \in 1..Len(rep.issues) :
                  LineAndMessage(rep.issues[j]) = LineAndMessage(rep.issues[k]) => j = k
            /\ {LineAndMessage(rep.issues[k]) : k \in 1..Len(rep.issues)}
                   = {LineAndMessage(qualifying[k]) : k \in 1..Len(qualifying)}

SectionCount(section) == IF section.line.kind = "issue(s)" THEN section.line.count ELSE 0

\* The issues of the list that the review itself holds.
ReportedBy(review, issues) == SelectSeq(issues, LAMBDA i : i \in Range(review.issues))

\* The issues of the list whose message text the review holds, on whatever
\* line and with whatever confidence.
SameTextAsOneOf(review, issues) ==
    SelectSeq(issues, LAMBDA i :
        \E j \in 1..Len(review.issues) : review.issues[j].message = i.message)

\* C32 as stated: the count of an agent's section is the number of issues of
\* the report that the agent reported, "No issues found." stands exactly for
\* zero, and every issue of the report is counted under some agent.
C32_SectionCountsTheAgentsIssues ==
    report # <<>> =>
        LET rep == report[1]
            sections == rep.summary.sections
        IN  /\ Len(sections) = Len(rep.agentReviews)
            /\ \A k \in 1..Len(sections) :
                  /\ sections[k].issues = ReportedBy(rep.agentReviews[k], rep.issues)
                  /\ SectionCount(sections[k]) = Len(sections[k].issues)
                  /\ sections[k].line.kind = "No issues found."
                        <=> ReportedBy(rep.agentReviews[k], rep.issues) = <<>>
            /\ \A j \in 1..Len(rep.issues) :
                  \E k \in 1..Len(sections) : rep.issues[j] \in Range(sections[k].issues)

\* C32, amended: the count of an agent's section is the number of issues of
\* the report whose exact message text occurs among the agent's own issues,
\* whatever their line and confidence; "No issues found." stands exactly for
\* zero; every issue of the report that the agent reported is counted under
\* it, and every issue of the report is counted under some agent.
C32_SectionCountsIssuesOfSameText ==
    report # <<>> =>
        LET rep == report[1]
            sections == rep.summary.sections
        IN  /\ Len(sections) = Len(rep.agentReviews)
            /\ \A k \in 1..Len(sections) :
                  /\ sections[k].agentName = rep.agentReviews[k].agentName
                  /\ sections[k].issues = SameTextAsOneOf(rep.agentReviews[k], rep.issues)
                  /\ SectionCount(sections[k]) = Len(sections[k].issues)
                  /\ sections[k].line.kind = "No issues found."
                        <=> sections[k].issues = <<>>
                  /\ \A j \in 1..Len(rep.issues) :
                        rep.issues[j] \in Range(rep.agentReviews[k].issues)
                            => rep.issues[j] \in Range(sections[k].issues)
            /\ \A j \in 1..Len(rep.issues) :
                  \E k \in 1..Len(sections) : rep.issues[j] \in Range(sections[k].issues)

\* The first agent reported one issue; the second agent's issue with the same
\* text on another line is listed under the first agent too.
C32_Witness ==
    /\ report # <<>>
    /\ options.minConfidence = 70
    /\ ConfidencesOf(report[1].agentReviews[1].issues) = <<95>>
    /\ ConfidencesOf(report[1].agentReviews[2].issues) = <<80, 65>>
    /\ report[1].agentReviews[2].issues[1].line = Num(7)
    /\ report[1].agentReviews[2].issues[1].message = report[1].agentReviews[1].issues[1].message
    /\ SectionCount(report[1].summary.sections[1]) = 2
    /\ SectionCount(report[1].summary.sections[2]) = 2

\* The sum of a field of a tool's statistics over all reviews of a report.
SumOverReviews(rep, toolName, field) ==
    SumSeq([k \in 1..Len(rep.agentReviews) |->
               LET usage == rep.agentReviews[k].toolUsage
               IN  SumSeq([j \in 1..Len(usage) |->
                              IF usage[j].toolName = toolName THEN usage[j][field] ELSE 0])])

ToolsOfReviews(rep) ==
    UNION {{rep.agentReviews[k].toolUsage[j].toolName :
               j \in 1..Len(rep.agentReviews[k].toolUsage)} :
           k \in 1..Len(rep.agentReviews)}

MergedAdditively(rep) ==
    LET aggregated == rep.toolUsage.aggregated
    IN  /\ {aggregated[k].toolName : k \in 1..Len(aggregated)} = ToolsOfReviews(rep)
        /\ \A j, k \in 1..Len(aggregated) :
              aggregated[j].toolName = aggregated[k].toolName => j = k
        /\ \A k \in 1..Len(aggregated) :
              /\ aggregated[k].callCount =
                     SumOverReviews(rep, aggregated[k].toolName, "callCount")
              /\ aggregated[k].totalTimeMs =
                     SumOverReviews(rep, aggregated[k].toolName, "totalTimeMs")
        /\ SumSeq([k \in 1..Len(aggregated) |-> aggregated[k].callCount])
               = rep.totalToolCalls

\* C33: for every tool name the aggregated callCount and totalTimeMs are the
\* sums of that tool's values over all reviews of the report, so the
\* aggregated call counts add up to totalToolCalls, for every list of agents,
\* one that names an agent twice included; each review keeps its own entries.
C33_ToolUsageMergedAdditively ==
    report # <<>> =>
        /\ MergedAdditively(report[1])
        /\ \A i \in Tasks :
              report[1].agentReviews[i].toolUsage = Values(task[i].toolUsageMap)

\* C34: every issue that parsing creates has a confidence in 0..100; a
\* marker with a number outside that range gives no issue with that number.
C34_ConfidenceWithinRange ==
    \A i \in Tasks :
        task[i].review # <<>> =>
            \A k \in 1..Len(task[i].review[1].issues) :
                task[i].review[1].issues[k].confidence \in 0..100

ReadsContent(r) == \E k \in 1..Len(r.fx) : r.fx[k].op = "read"
FailsWith(r, errors) == ~r.success /\ r.error.msg \in errors /\ ~ReadsContent(r)

\* C35: read_file checks the path, then that the file exists, then its size,
\* and reports the first check that fails; a file of 50 KB or less is
\* returned in full; no content is read when a check fails.
C35_ReadFileChecksInOrder ==
    (callOutcome # <<>> /\ callName = "read_file") =>
        LET r == callOutcome[1]
            pathPasses == ~validatePath(CallPath).threw
        IN  /\ ~pathPasses =>
                  (FailsWith(r, {ERR_TYPE, ERR_ABSOLUTE, ERR_TRAVERSAL}) /\ r.fx = <<>>)
            /\ (pathPasses /\ ~env.fileExists) => FailsWith(r, {ERR_NOT_FOUND})
            /\ (pathPasses /\ env.fileExists /\ env.fileSize > 50 * 1024)
                  => FailsWith(r, {ERR_TOO_LARGE})
            /\ (pathPasses /\ env.fileExists /\ env.fileSize <= 50 * 1024) =>
                  /\ r.success
                  /\ r.result.kind = "content"
                  /\ r.result.size = env.fileSize
                  /\ r.result.loc = join(validatePath(CallPath).val)
                  /\ ReadsContent(r)

C35_Witness ==
    /\ callOutcome # <<>>
    /\ callName = "read_file"
    /\ callInput = [EmptyObj EXCEPT !.path = PATH_A]
    /\ ~env.fileExists
    /\ env.fileSize > 50 * 1024
    /\ callOutcome[1].error.msg = ERR_NOT_FOUND
    /\ Len(callOutcome[1].fx) = 1

WellFormedSearch ==
    /\ callOutcome # <<>>
    /\ callName = "search_code"
    /\ callInput.t = "object"
    /\ IsString(callInput.pattern)
    /\ callInput.file_pattern.t \in {"undefined", "string"}
UsedFallback(r) == \E k \in 1..Len(r.fx) : r.fx[k].cmd \in {"find", "grep"}
NoFileForPattern == Truthy(callInput.file_pattern) /\ env.findFiles = 0
\* The number of matching lines the answering tool saw.
MatchedLines(r) ==
    IF UsedFallback(r)
    THEN IF ~NoFileForPattern /\ env.grep = "0" THEN env.lines ELSE 0
    ELSE IF env.rg = "0" THEN env.lines ELSE 0
AnsweredNormally(r) ==
    IF UsedFallback(r) THEN NoFileForPattern \/ env.grep \in {"0", "1"}
    ELSE env.rg \in {"0", "1"}
PrimaryFirstFallbackOnFailure(r) ==
    /\ UsedFallback(r) <=> env.rg \in {"2", "missing"}
    /\ env.rg # "missing" => (Len(r.fx) >= 1 /\ r.fx[1] = Spawn("rg"))
    /\ \A k \in 2..Len(r.fx) : r.fx[k] # Spawn("rg")
    /\ env.rg = "1" =>
          (r.success /\ r.result = NoMatchesFound /\ r.fx = <<Spawn("rg")>>)

\* C36 as stated: search_code runs ripgrep first and the fallback only when
\* ripgrep failed; ripgrep's "no matches" exit is a successful empty result
\* without fallback; for the same matching lines both return the same text.
C36_FallbackEquivalentToPrimary ==
    WellFormedSearch =>
        LET r == callOutcome[1]
        IN  /\ PrimaryFirstFallbackOnFailure(r)
            /\ AnsweredNormally(r) =>
                  (r.success /\ r.result = CapLines(MatchedLines(r)))

\* C36 as the code has it: the same, but the fallback answers "No matching
\* files found." when a file pattern is given and find lists no file, where
\* ripgrep answers "No matches found.".
C36_FallbackOnlyAfterPrimaryFails ==
    WellFormedSearch =>
        LET r == callOutcome[1]
        IN  /\ PrimaryFirstFallbackOnFailure(r)
            /\ AnsweredNormally(r) =>
                  /\ r.success
                  /\ r.result = IF UsedFallback(r) /\ NoFileForPattern
                                THEN NoMatchingFiles
                                ELSE CapLines(MatchedLines(r))

C36_Witness ==
    /\ WellFormedSearch
    /\ env.rg = "2"
    /\ NoFileForPattern
    /\ callOutcome[1].success
    /\ callOutcome[1].result = NoMatchingFiles
    /\ callOutcome[1].fx = <<Spawn("rg"), Spawn("find")>>

SpawnedGit(r) == \E k \in 1..Len(r.fx) : r.fx[k].cmd = "git"

\* C37: a search or history subprocess that fails with another status than
\* "no matches" gives a tool error (success = false), never a successful
\* empty result, also when ripgrep and the grep fallback both fail.
C37_SubprocessFailureIsToolError ==
    callOutcome # <<>> =>
        LET r == callOutcome[1]
        IN  /\ (WellFormedSearch /\ env.rg \in {"2", "missing"} /\ env.grep = "2"
                  /\ ~NoFileForPattern)
                  => (~r.success /\ r.error # Undef)
            /\ (callName = "get_git_history" /\ SpawnedGit(r) /\ env.git # "0")
                  => (~r.success /\ r.error # Undef)

\* C38: get_git_history asks for min(limit, 20) commits, 10 when the limit is
\* missing, and for every integer limit the number asked for is in 1..20.
C38_GitLimitBetweenOneAndTwenty ==
    (callOutcome # <<>> /\ callName = "get_git_history" /\ callInput.t = "object"
       /\ callInput.limit.t \in {"undefined", "number"})
    => \A k \in 1..Len(callOutcome[1].fx) :
          callOutcome[1].fx[k].cmd = "git" =>
              /\ callOutcome[1].fx[k].n \in 1..20
              /\ callInput.limit.t = "undefined" => callOutcome[1].fx[k].n = 10

\* C39: get_git_history with a path validates it as read_file does, before
\* any subprocess: an absolute path or a path that keeps a parent-directory
\* segment after normalization gives the validation error read_file gives,
\* and no history command is run.
C39_GitHistoryValidatesPathFirst ==
    (callOutcome # <<>> /\ callName = "get_git_history" /\ Truthy(CallPath)) =>
        LET r == callOutcome[1]
            asReadFile == readFile(CallPath, env)
            rejected == validatePath(CallPath).threw
        IN  /\ (IsString(CallPath) /\ (isAbsolute(CallPath.s)
                   \/ HasParentSegment(normalize(CallPath.s)))) => IsPathError(r)
            /\ rejected => (~r.success /\ r.error = ErrorText(asReadFile.err)
                              /\ r.fx = <<>>)
            /\ ~rejected => (SpawnedGit(r) /\ ~IsPathError(r)
                               /\ \A k \in 1..Len(r.fx) :
                                     r.fx[k].path = Str(normalize(CallPath.s)))

C39_Witness ==
    /\ callOutcome # <<>>
    /\ callName = "get_git_history"
    /\ CallPath = Str(<<NAME_A, DOTDOT, DOTDOT>>)
    /\ env.git = "0"
    /\ callOutcome[1].error = ErrorText(ERR_TRAVERSAL)
    /\ callOutcome[1].fx = <<>>

\* What a tool does to the repository: Bun.file with exists, size and text
\* only reads; rg, find, grep and git log only read the working tree.
ReadOnly(effect) ==
    \/ effect.op \in {"open", "read"}
    \/ effect.op = "spawn" /\ effect.cmd \in {"rg", "find", "grep", "git"}
C40_Step ==
    /\ env' = env
    /\ callOutcome' # <<>> =>
          \A k \in 1..Len(callOutcome'[1].fx) : ReadOnly(callOutcome'[1].fx[k])

\* C40: no tool writes to the repository: for every tool name and input,
\* successful or failed, the files and their contents are the same after
\* executeTool returns as before.
C40_ToolsNeverWrite == [][C40_Step]_vars

C40_Witness ==
    /\ callOutcome # <<>>
    /\ callName = "search_code"
    /\ callOutcome[1].success
    /\ callOutcome[1].fx = <<Spawn("rg"), Spawn("find"), Spawn("grep")>>

====
